---------------------------- MODULE Spec2Model ----------------------------
(***************************************************************************)
(* A model of src/evm/onchain/endpoints.rs (OnChainConfig): the HTTP       *)
(* transport with its persistent cache and retry loops, the pinned block   *)
(* context, and the memoizing state accessors.                             *)
(*                                                                         *)
(* Strings are sequences of fragments.  A fragment is an atomic piece of   *)
(* text (a single character where the code works on characters, a whole    *)
(* word where it does not); concatenation is \o, and a substring test is a *)
(* search for a contiguous run of fragments.                               *)
(***************************************************************************)
EXTENDS Integers, Sequences, FiniteSets, TLC

VARIABLES
    rpc_cache,   \* the persistent store (FileSystemCache): hash -> text
    call,        \* the Transport call in flight (get/post and its retry loop)
    cfg,         \* the session (OnChainConfig)
    obs,         \* the last session operation: its arguments, result, requests
    hist,        \* what the session has asked and answered so far
    latest,      \* the latest block of the remote node
    peer         \* the Transport call in flight of a second session (a second
                 \* process over the same ./cache)

vars == <<rpc_cache, call, cfg, obs, hist, latest, peer>>

session == <<cfg, obs, hist, latest>>

----------------------------------------------------------------------------
(* Option<T> *)

\* let x = e: the body F reads the value of e as x.
Let(e, F(_)) == CHOOSE y \in {F(x) : x \in {e}} : TRUE

None == [some |-> FALSE, v |-> <<>>]

Some(x) == [some |-> TRUE, v |-> x]

----------------------------------------------------------------------------
(* str::contains: some contiguous run of fragments of t equals pat. *)

Contains(t, pat) ==
    \E i \in 0..(Len(t) - Len(pat)) : SubSeq(t, i + 1, i + Len(pat)) = pat

RateLimitMarker == <<"Max rate limit reached">>

ErrorMarker == <<"error">>

----------------------------------------------------------------------------
(* Request fingerprints (get: lines 316-319, post: lines 366-369). *)

GetKey(url) == <<"get_">> \o url

PostKey(url, data) == <<"post_">> \o url \o <<"_">> \o data

\* DefaultHasher (SipHash, fixed keys) followed by to_string: a digest that
\* is a function of the key alone.  The model takes it to be collision-free.
Hash(key) == <<"siphash">> \o key

----------------------------------------------------------------------------
(* The persistent store, used through load and save only. *)

LoadAlwaysMiss(cache, hash) == None

\* rpc_cache.load(hash): Ok(text) when an entry exists, Err otherwise.
Load(cache, hash) ==
    IF hash \in DOMAIN cache THEN Some(cache[hash]) ELSE None

SaveDropped(cache, hash, text) == cache

\* rpc_cache.save(hash, text) that reports Ok.
Save(cache, hash, text) ==
    [h \in (DOMAIN cache) \cup {hash} |-> IF h = hash THEN text ELSE cache[h]]

----------------------------------------------------------------------------
(* Strings at character level.                                            *)

\* str::len: the number of characters, a fragment counting for its own.
RECURSIVE StrLen(_)
StrLen(s) == IF s = <<>> THEN 0 ELSE Len(Head(s)) + StrLen(Tail(s))

\* The index of the fragment that starts at character offset n, or 0 when
\* no fragment starts there (Len(s) + 1 for the offset just past the end).
RECURSIVE FragmentAt(_, _, _)
FragmentAt(s, n, i) ==
    IF n = 0 THEN i
    ELSE IF i > Len(s) \/ Len(s[i]) > n THEN 0
    ELSE FragmentAt(s, n - Len(s[i]), i + 1)

\* &s[a..b]: the characters at offsets a .. b-1.  Both offsets must fall
\* between fragments.
Slice(s, a, b) == SubSeq(s, FragmentAt(s, a, 1), FragmentAt(s, b, 1) - 1)

\* str::trim_start_matches("0x"): drops every leading "0x".
RECURSIVE TrimStart0x(_)
TrimStart0x(s) ==
    IF Len(s) >= 2 /\ s[1] = "0" /\ s[2] = "x" THEN TrimStart0x(SubSeq(s, 3, Len(s)))
    ELSE s

HexChars ==
    <<"0", "1", "2", "3", "4", "5", "6", "7", "8", "9", "a", "b", "c", "d", "e", "f">>

\* The value of a digit character (upper case as lower case), -1 for any
\* other character.
DigitValue(ch) ==
    IF \E i \in 1..16 : HexChars[i] = ch
    THEN (CHOOSE i \in 1..16 : HexChars[i] = ch) - 1
    ELSE IF ch \in {"A", "B", "C", "D", "E", "F"}
    THEN CASE ch = "A" -> 10 [] ch = "B" -> 11 [] ch = "C" -> 12
           [] ch = "D" -> 13 [] ch = "E" -> 14 [] ch = "F" -> 15
    ELSE -1

\* format!("{:x}", n): lower-case hex, no leading zeros.
RECURSIVE LowerHex(_)
LowerHex(n) ==
    IF n < 16 THEN <<HexChars[n + 1]>>
    ELSE LowerHex(n \div 16) \o <<HexChars[(n % 16) + 1]>>

\* Uint::from_str_radix (ruint): digits most significant first, '_'
\* ignored, an error on any other character that is no digit of the radix;
\* no digits at all give zero.
RECURSIVE FromStrRadixAcc(_, _, _)
FromStrRadixAcc(s, radix, acc) ==
    IF s = <<>> THEN Some(acc)
    ELSE IF Head(s) = "_" THEN FromStrRadixAcc(Tail(s), radix, acc)
    ELSE LET d == DigitValue(Head(s))
         IN  IF d < 0 \/ d >= radix THEN None
             ELSE FromStrRadixAcc(Tail(s), radix, acc * radix + d)

FromStrRadix(s, radix) == FromStrRadixAcc(s, radix, 0)

\* from_str without the prefixes: radix 10 whatever the string begins with.
U256FromStrDecimal(s) == FromStrRadix(s, 10)

\* <Uint as FromStr>::from_str (ruint): radix 16, 8 or 2 after a "0x",
\* "0o" or "0b" prefix of either case, radix 10 otherwise.
U256FromStr(s) ==
    IF Len(s) >= 2 /\ s[1] = "0" /\ s[2] \in {"x", "X"}
    THEN FromStrRadix(SubSeq(s, 3, Len(s)), 16)
    ELSE IF Len(s) >= 2 /\ s[1] = "0" /\ s[2] \in {"o", "O"}
    THEN FromStrRadix(SubSeq(s, 3, Len(s)), 8)
    ELSE IF Len(s) >= 2 /\ s[1] = "0" /\ s[2] \in {"b", "B"}
    THEN FromStrRadix(SubSeq(s, 3, Len(s)), 2)
    ELSE FromStrRadix(s, 10)

\* hex::decode: two hex digits a byte; an error on an odd number of
\* characters or on a character that is no hex digit.
RECURSIVE HexDecode(_)
HexDecode(s) ==
    IF s = <<>> THEN Some(<<>>)
    ELSE IF Len(s) = 1 THEN None
    ELSE Let(HexDecode(SubSeq(s, 3, Len(s))), LAMBDA rest :
         Let(<<DigitValue(s[1]), DigitValue(s[2])>>, LAMBDA d :
             IF d[1] < 0 \/ d[2] < 0 \/ ~rest.some THEN None
             ELSE Some(<<d[1] * 16 + d[2]>> \o rest.v)))

\* Uint::try_from_be_slice: the big-endian value of at most 32 bytes.
RECURSIVE BeValue(_, _)
BeValue(bytes, acc) ==
    IF bytes = <<>> THEN acc ELSE BeValue(Tail(bytes), acc * 256 + Head(bytes))

TryFromBeSlice(bytes) ==
    IF Len(bytes) > 32 THEN None ELSE Some(BeValue(bytes, 0))

----------------------------------------------------------------------------
(* JSON (serde_json), over fragments: the punctuation { } [ ] : , and the *)
(* quote are fragments of their own, a string is what stands between two  *)
(* quotes, null and the numbers are single fragments.                     *)

JNull == [ty |-> "null", s |-> <<>>, n |-> 0, m |-> <<>>, a |-> <<>>]

JStr(s) == [JNull EXCEPT !.ty = "str", !.s = s]

JNum(n) == [JNull EXCEPT !.ty = "num", !.n = n]

JObj(m) == [JNull EXCEPT !.ty = "obj", !.m = m]

JArr(a) == [JNull EXCEPT !.ty = "arr", !.a = a]

JBool(b) == [JNull EXCEPT !.ty = "bool", !.n = IF b THEN 1 ELSE 0]

\* The numbers that occur.  1000000000000000 is the limit argument of
\* debug_storageRangeAt: it occurs in requests only, where its value is
\* never read, and stands here as the largest integer TLC can hold.
NumberFragments == {"-1", "0", "1", "6", "18", "56", "1000000000000000"}

NumberValue(f) ==
    CASE f = "-1" -> -1 [] f = "0" -> 0 [] f = "1" -> 1 [] f = "6" -> 6
      [] f = "18" -> 18 [] f = "56" -> 56
      [] f = "1000000000000000" -> 2147483647

Parsed(v, next) == [ok |-> TRUE, v |-> v, next |-> next]

ParseFail == [ok |-> FALSE, v |-> JNull, next |-> 0]

\* The position of the first quote at or after i, 0 when there is none.
RECURSIVE FindQuote(_, _)
FindQuote(t, i) ==
    IF i > Len(t) THEN 0 ELSE IF t[i] = "\"" THEN i ELSE FindQuote(t, i + 1)

\* A string literal whose opening quote is at i.
ParseString(t, i) ==
    Let(FindQuote(t, i + 1), LAMBDA j :
        IF j = 0 THEN ParseFail ELSE Parsed(SubSeq(t, i + 1, j - 1), j + 1))

RECURSIVE ParseValue(_, _)
RECURSIVE ParseMembers(_, _, _)
RECURSIVE ParseElements(_, _, _)

\* The members of an object from position i on, m holding those read so
\* far; a repeated key keeps its last value.
ParseMembers(t, i, m) ==
    IF i > Len(t) \/ t[i] # "\"" THEN ParseFail
    ELSE Let(ParseString(t, i), LAMBDA k :
         IF ~k.ok \/ k.next > Len(t) \/ t[k.next] # ":" THEN ParseFail
         ELSE Let(ParseValue(t, k.next + 1), LAMBDA v :
              Let([x \in (DOMAIN m) \cup {k.v} |-> IF x = k.v THEN v.v ELSE m[x]],
                  LAMBDA m2 :
                  IF ~v.ok \/ v.next > Len(t) THEN ParseFail
                  ELSE IF t[v.next] = "," THEN ParseMembers(t, v.next + 1, m2)
                  ELSE IF t[v.next] = "}" THEN Parsed(JObj(m2), v.next + 1)
                  ELSE ParseFail)))

\* The elements of an array from position i on, a holding those read so far.
ParseElements(t, i, a) ==
    Let(ParseValue(t, i), LAMBDA v :
        IF ~v.ok \/ v.next > Len(t) THEN ParseFail
        ELSE IF t[v.next] = "," THEN ParseElements(t, v.next + 1, Append(a, v.v))
        ELSE IF t[v.next] = "]" THEN Parsed(JArr(Append(a, v.v)), v.next + 1)
        ELSE ParseFail)

ParseValue(t, i) ==
    IF i > Len(t) THEN ParseFail
    ELSE IF t[i] = "\"" THEN
        Let(ParseString(t, i), LAMBDA r :
            IF r.ok THEN Parsed(JStr(r.v), r.next) ELSE ParseFail)
    ELSE IF t[i] = "{" THEN
        IF i + 1 <= Len(t) /\ t[i + 1] = "}" THEN Parsed(JObj(<<>>), i + 2)
        ELSE ParseMembers(t, i + 1, <<>>)
    ELSE IF t[i] = "[" THEN
        IF i + 1 <= Len(t) /\ t[i + 1] = "]" THEN Parsed(JArr(<<>>), i + 2)
        ELSE ParseElements(t, i + 1, <<>>)
    ELSE IF t[i] = "null" THEN Parsed(JNull, i + 1)
    ELSE IF t[i] \in {"true", "false"} THEN Parsed(JBool(t[i] = "true"), i + 1)
    ELSE IF t[i] \in NumberFragments THEN Parsed(JNum(NumberValue(t[i])), i + 1)
    ELSE ParseFail

\* serde_json::from_str(..).ok(): the whole text must be one value.
FromJson(t) ==
    Let(ParseValue(t, 1), LAMBDA r :
        IF r.ok /\ r.next = Len(t) + 1 THEN Some(r.v) ELSE None)

\* Value::get(key): the member of an object, None for a missing key or a
\* value that is no object.
JGet(v, key) ==
    IF v.ty = "obj" /\ key \in DOMAIN v.m THEN Some(v.m[key]) ELSE None

\* value[key]: as get, with Null for None.
JIndex(v, key) ==
    IF v.ty = "obj" /\ key \in DOMAIN v.m THEN v.m[key] ELSE JNull

\* Value::as_str
AsStr(v) == IF v.ty = "str" THEN Some(v.s) ELSE None

\* Value::as_i64
AsI64(v) == IF v.ty = "num" THEN Some(v.n) ELSE None

\* Value::as_object
AsObject(v) == IF v.ty = "obj" THEN Some(v.m) ELSE None

\* Value::as_array
AsArray(v) == IF v.ty = "arr" THEN Some(v.a) ELSE None

\* A JSON string literal.
Str(s) == <<"\"">> \o s \o <<"\"">>

\* Value::to_string: the compact serialisation.  The members of an object
\* come in the order of their keys; the model serialises objects of at most
\* one member, where the order is immaterial.
RECURSIVE to_string(_)
to_string(v) ==
    CASE v.ty = "null" -> <<"null">>
      [] v.ty = "bool" -> <<IF v.n = 1 THEN "true" ELSE "false">>
      [] v.ty = "num" -> <<CHOOSE f \in NumberFragments : NumberValue(f) = v.n>>
      [] v.ty = "str" -> Str(v.s)
      [] v.ty = "arr" ->
            IF v.a = <<>> THEN <<"[", "]">>
            ELSE <<"[">> \o to_string(Head(v.a))
                    \o (IF Len(v.a) = 1 THEN <<>> ELSE <<",">>)
                    \o Tail(to_string(JArr(Tail(v.a))))
      [] v.ty = "obj" ->
            IF DOMAIN v.m = {} THEN <<"{", "}">>
            ELSE Let(CHOOSE x \in DOMAIN v.m : TRUE, LAMBDA k :
                 Let([x \in (DOMAIN v.m) \ {k} |-> v.m[x]], LAMBDA others :
                     <<"{">> \o Str(k) \o <<":">> \o to_string(v.m[k])
                        \o (IF DOMAIN others = {} THEN <<>> ELSE <<",">>)
                        \o Tail(to_string(JObj(others)))))

----------------------------------------------------------------------------
(* One HTTP attempt as the remote and the network decide it: the send     *)
(* fails, the body cannot be read, or a body text arrives.                *)

SendErr == [k |-> "send_err", text |-> <<>>]

ReadErr == [k |-> "read_err", text |-> <<>>]

Body(t) == [k |-> "body", text |-> t]

(* OperationResult of the retry crate; sent: an HTTP request went out. *)

OpOk(t) == [r |-> "Ok", v |-> t, sent |-> TRUE]

OpRetry == [r |-> "Retry", v |-> <<>>, sent |-> TRUE]

OpErr == [r |-> "Err", v |-> <<>>, sent |-> FALSE]

\* The last try of get's closure that still sends a request (line 324).
GetLastTry == 5

\* The last try of post's closure that still sends a request (line 374).
PostLastTry == 3

GetOperationOffByOne(current_try, o) ==
    IF current_try >= GetLastTry THEN OpErr
    ELSE IF o.k = "send_err" THEN OpRetry
    ELSE IF o.k = "read_err" THEN OpRetry
    ELSE IF Contains(o.text, RateLimitMarker) THEN OpRetry
    ELSE OpOk(o.text)

\* The closure get hands to retry_with_index (lines 323-350).
GetOperation(current_try, o) ==
    IF current_try > GetLastTry THEN OpErr
    ELSE IF o.k = "send_err" THEN OpRetry
    ELSE IF o.k = "read_err" THEN OpRetry
    ELSE IF Contains(o.text, RateLimitMarker) THEN OpRetry
    ELSE OpOk(o.text)

PostOperationScansRateLimit(current_try, o) ==
    IF current_try > PostLastTry THEN OpErr
    ELSE IF o.k = "send_err" THEN OpRetry
    ELSE IF o.k = "read_err" THEN OpRetry
    ELSE IF Contains(o.text, RateLimitMarker) THEN OpRetry
    ELSE OpOk(o.text)

\* The closure post hands to retry_with_index (lines 373-400).
PostOperation(current_try, o) ==
    IF current_try > PostLastTry THEN OpErr
    ELSE IF o.k = "send_err" THEN OpRetry
    ELSE IF o.k = "read_err" THEN OpRetry
    ELSE OpOk(o.text)

Operation(verb, current_try, o) ==
    IF verb = "get" THEN GetOperation(current_try, o)
    ELSE PostOperation(current_try, o)

ShouldSaveAlways(t) == TRUE

\* The test that guards rpc_cache.save (lines 352 and 402).
ShouldSave(t) == ~Contains(t, ErrorMarker)

\* What get and post do with the loop's result (lines 351-362, 401-411).
\* save(..).unwrap() panics when the store reports an error.
Finish(cache, hash, res, save_ok) ==
    IF res.r = "Ok" THEN
        IF ShouldSave(res.v) THEN
            IF save_ok
            THEN [cache |-> Save(cache, hash, res.v), ret |-> Some(res.v),
                  saved |-> TRUE, panic |-> FALSE]
            ELSE [cache |-> cache, ret |-> None, saved |-> FALSE, panic |-> TRUE]
        ELSE [cache |-> cache, ret |-> Some(res.v), saved |-> FALSE, panic |-> FALSE]
    ELSE [cache |-> cache, ret |-> None, saved |-> FALSE, panic |-> FALSE]

\* The key get/post hash for a request.
KeyOf(verb, url, data) ==
    IF verb = "get" THEN GetKey(url) ELSE PostKey(url, data)

----------------------------------------------------------------------------
(* Transport, one step per closure invocation of the retry loop.          *)
(* retry_with_index (retry crate) invokes the closure with current_try =  *)
(* 1, 2, ...; on Retry it takes the next delay of Fixed::from_millis,     *)
(* which never ends, and goes on; on Ok or Err it returns.                *)

NoCall == [verb |-> "none", url |-> <<>>, data |-> <<>>, ret |-> None, attempts |-> 0]

Idle ==
    [pc |-> "idle", verb |-> "none", url |-> <<>>, data |-> <<>>, hash |-> <<>>,
     had_entry |-> FALSE, stored |-> <<>>, current_try |-> 0, attempts |-> 0,
     last |-> SendErr, ret |-> None, before |-> NoCall]

\* The call that returned, as the next call remembers it.
Summary(c) ==
    IF c.pc = "done"
    THEN [verb |-> c.verb, url |-> c.url, data |-> c.data, ret |-> c.ret,
          attempts |-> c.attempts]
    ELSE NoCall

\* get/post up to the retry loop (lines 315-322, 365-372): the load, and
\* the early return on a hit.
Enter(verb, url, data) ==
    LET hash == Hash(KeyOf(verb, url, data))
        l == Load(rpc_cache, hash)
        had == hash \in DOMAIN rpc_cache
        c == [Idle EXCEPT !.verb = verb, !.url = url, !.data = data,
                          !.hash = hash, !.had_entry = had,
                          !.stored = IF had THEN rpc_cache[hash] ELSE <<>>,
                          !.before = Summary(call)]
    IN  IF l.some
        THEN [c EXCEPT !.pc = "done", !.ret = Some(l.v)]
        ELSE [c EXCEPT !.pc = "loop", !.current_try = 1]

GetCall(url) ==
    /\ call.pc \in {"idle", "done"}
    /\ call' = Enter("get", url, <<>>)
    /\ UNCHANGED <<rpc_cache, session, peer>>

PostCall(url, data) ==
    /\ call.pc \in {"idle", "done"}
    /\ call' = Enter("post", url, data)
    /\ UNCHANGED <<rpc_cache, session, peer>>

\* Attempt with a retry_with_index that hands the closure the same
\* current_try again after a Retry.
AttemptSameTry(o, save_ok) ==
    /\ call.pc = "loop"
    /\ LET res == Operation(call.verb, call.current_try, o)
           f == Finish(rpc_cache, call.hash, res, save_ok)
       IN  IF res.r = "Retry"
           THEN /\ call' = [call EXCEPT !.last = o]
                /\ UNCHANGED <<rpc_cache, session, peer>>
           ELSE /\ call' = [call EXCEPT !.pc = IF f.panic THEN "panic" ELSE "done",
                                        !.ret = f.ret, !.last = o,
                                        !.attempts = @ + 1]
                /\ rpc_cache' = f.cache
                /\ UNCHANGED <<session, peer>>

\* One invocation of the closure and what retry_with_index and the match
\* after it do with the result.
Attempt(o, save_ok) ==
    /\ call.pc = "loop"
    /\ LET res == Operation(call.verb, call.current_try, o)
           c == [call EXCEPT !.attempts = IF res.sent THEN @ + 1 ELSE @,
                             !.last = IF res.sent THEN o ELSE @]
           f == Finish(rpc_cache, call.hash, res, save_ok)
       IN  IF res.r = "Retry"
           THEN /\ call' = [c EXCEPT !.current_try = @ + 1]
                /\ UNCHANGED <<rpc_cache, session, peer>>
           ELSE /\ call' = [c EXCEPT !.pc = IF f.panic THEN "panic" ELSE "done",
                                     !.ret = f.ret]
                /\ rpc_cache' = f.cache
                /\ UNCHANGED <<session, peer>>

----------------------------------------------------------------------------
(* Transport as one function, for the accessors that call it.  A world w  *)
(* is the session (w.c, the OnChainConfig), the persistent store          *)
(* (w.store), the requests made so far by the operation under way         *)
(* (w.reqs) and whether it has panicked (w.panic).  net is what the       *)
(* network does to one request: the outcome of each attempt in turn       *)
(* (net.script) and whether the store accepts a save (net.save_ok).       *)

\* What the network does to the request after this one, where an operation
\* makes more than one: net.then when there is one, the same again otherwise.
Then(net) == IF "then" \in DOMAIN net THEN net.then ELSE net

World(c, store) == [c |-> c, store |-> store, reqs |-> <<>>, panic |-> FALSE]

Ret(w, v) == [w |-> w, ret |-> v]

\* panic!, and unwrap/expect on None or Err.
Panic(w) == [w |-> [w EXCEPT !.panic = TRUE], ret |-> <<>>]

\* retry_with_index (retry crate): the closure is invoked with current_try
\* = 1, 2, ... until it answers Ok or Err; Fixed::from_millis never ends.
RECURSIVE retry_with_index(_, _, _, _)
retry_with_index(verb, script, current_try, sent) ==
    Let(Operation(verb, current_try,
                  IF current_try <= Len(script) THEN script[current_try] ELSE SendErr),
        LAMBDA res :
        Let(IF res.sent THEN sent + 1 ELSE sent, LAMBDA n :
            IF res.r = "Retry" THEN retry_with_index(verb, script, current_try + 1, n)
            ELSE [res |-> res, attempts |-> n]))

\* Transport without the look into the store: every call goes to the
\* network.
TransportNoLoad(w, verb, url, data, net) ==
    Let(Hash(KeyOf(verb, url, data)), LAMBDA hash :
    Let(retry_with_index(verb, net.script, 1, 0), LAMBDA r :
    Let(Finish(w.store, hash, r.res, net.save_ok), LAMBDA f :
        Ret([w EXCEPT !.store = f.cache, !.panic = f.panic,
                      !.reqs = Append(@, [verb |-> verb, url |-> url,
                                          data |-> data, lookup |-> FALSE,
                                          hit |-> FALSE,
                                          attempts |-> r.attempts,
                                          resp |-> f.ret])],
            f.ret))))

\* get and post (lines 315-363, 365-412).
Transport(w, verb, url, data, net) ==
    Let(Hash(KeyOf(verb, url, data)), LAMBDA hash :
    Let(Load(w.store, hash), LAMBDA l :
        IF l.some
        THEN Ret([w EXCEPT !.reqs = Append(@, [verb |-> verb, url |-> url,
                                               data |-> data, lookup |-> TRUE,
                                               hit |-> TRUE, attempts |-> 0,
                                               resp |-> Some(l.v)])],
                 Some(l.v))
        ELSE Let(retry_with_index(verb, net.script, 1, 0), LAMBDA r :
             Let(Finish(w.store, hash, r.res, net.save_ok), LAMBDA f :
                 Ret([w EXCEPT !.store = f.cache, !.panic = f.panic,
                               !.reqs = Append(@, [verb |-> verb, url |-> url,
                                                   data |-> data, lookup |-> TRUE,
                                                   hit |-> FALSE,
                                                   attempts |-> r.attempts,
                                                   resp |-> f.ret])],
                     f.ret)))))

get(w, url, net) == Transport(w, "get", url, <<>>, net)

post(w, url, data, net) == Transport(w, "post", url, data, net)

\* The JSON-RPC body of _request and _request_with_id (lines 550-553).
RequestData(method, params, id) ==
    <<"{">> \o Str(<<"jsonrpc">>) \o <<":">> \o Str(<<"2.0">>) \o <<",">>
        \o Str(<<"method">>) \o <<":">> \o Str(<<method>>) \o <<",">>
        \o Str(<<"params">>) \o <<":">> \o params \o <<",">>
        \o Str(<<"id">>) \o <<":", id, "}">>

\* and_then(from_str(..).ok()).and_then(get("result")) of lines 554-556.
ResultOf(ret) ==
    IF ~ret.some THEN None
    ELSE Let(FromJson(ret.v), LAMBDA json :
             IF json.some THEN JGet(json.v, <<"result">>) ELSE None)

\* _request (lines 549-561): the result member of the response, None when
\* post gives none, the body is no JSON or has no result.
_request(w, method, params, net) ==
    Let(post(w, w.c.endpoint_url, RequestData(method, params, w.c.chain_id), net),
        LAMBDA r : Ret(r.w, ResultOf(r.ret)))

\* _request_with_id (lines 563-575).
_request_with_id(w, method, params, id, net) ==
    Let(post(w, w.c.endpoint_url, RequestData(method, params, id), net),
        LAMBDA r : Ret(r.w, ResultOf(r.ret)))

\* HashMap::insert
Put(m, k, v) == [x \in (DOMAIN m) \cup {k} |-> IF x = k THEN v ELSE m[x]]

----------------------------------------------------------------------------
(* The session: OnChainConfig and its operations.  An address is a        *)
(* fragment (its 40 hex digits); "0x" before it is a fragment of its own. *)

\* format!("0x{:x}", address) and format!("{:?}", address)
AddressHex(address) == <<"0x", address>>

\* The struct literal of new_raw (lines 291-308).
NewConfig(endpoint_url, chain_id, block_number, etherscan_base) ==
    [endpoint_url |-> endpoint_url, chain_id |-> chain_id,
     block_number |-> <<"0", "x">> \o LowerHex(block_number),
     timestamp |-> None, coinbase |-> None, gaslimit |-> None, block_hash |-> None,
     etherscan_api_key |-> <<>>, etherscan_base |-> etherscan_base,
     balance_cache |-> <<>>, pair_cache |-> <<>>, slot_cache |-> <<>>,
     code_cache |-> <<>>, code_cache_analyzed |-> <<>>, abi_cache |-> <<>>,
     storage_dump_cache |-> <<>>]

\* set_latest_block_number (lines 414-427)
set_latest_block_number(w, net) ==
    Let(_request(w, "eth_blockNumber", <<"[", "]">>, net), LAMBDA r :
        IF r.w.panic \/ ~r.ret.some THEN Panic(r.w)
        ELSE Let(AsStr(r.ret.v), LAMBDA block_number :
             IF ~block_number.some THEN Panic(r.w)
             ELSE IF ~FromStrRadix(TrimStart0x(block_number.v), 16).some
             THEN Panic([r.w EXCEPT !.c.block_number = block_number.v])
             ELSE Ret([r.w EXCEPT !.c.block_number = block_number.v], <<>>)))

\* new_raw (lines 284-313)
new_raw(store, endpoint_url, chain_id, block_number, etherscan_base, net) ==
    IF block_number = 0
    THEN set_latest_block_number(
             World(NewConfig(endpoint_url, chain_id, block_number, etherscan_base),
                   store), net)
    ELSE Ret(World(NewConfig(endpoint_url, chain_id, block_number, etherscan_base),
                   store), <<>>)

\* add_etherscan_api_key (lines 429-431)
add_etherscan_api_key(w, key) ==
    Ret([w EXCEPT !.c.etherscan_api_key = Append(@, key)], <<>>)

\* The params of a state read: the address, the slot if any, the block.
StateParams(c, address, slot) ==
    <<"[">> \o Str(AddressHex(address)) \o <<",">> \o slot
        \o Str(c.block_number) \o <<"]">>

\* match resp { Some(resp) => resp.as_str().unwrap().to_string(),
\* None => "".to_string() } of lines 587-593, 683-689, 726-732.
StringOrEmpty(ret) == IF ret.some THEN AsStr(ret.v) ELSE Some(<<>>)

\* get_balance past its cache check (lines 582-599): a failed request
\* leaves the empty string, which from_str reads as zero.
FetchBalance(w, address, net) ==
    Let(_request(w, "eth_getBalance", StateParams(w.c, address, <<>>), net), LAMBDA r :
    Let(StringOrEmpty(r.ret), LAMBDA resp_string :
    Let(IF resp_string.some THEN U256FromStr(resp_string.v) ELSE None, LAMBDA balance :
        IF r.w.panic \/ ~balance.some THEN Panic(r.w)
        ELSE Ret([r.w EXCEPT !.c.balance_cache = Put(@, address, balance.v)],
                 balance.v))))

GetBalanceNoCacheCheck(w, address, net) == FetchBalance(w, address, net)

\* get_balance (lines 577-600)
get_balance(w, address, net) ==
    IF address \in DOMAIN w.c.balance_cache
    THEN Ret(w, w.c.balance_cache[address])
    ELSE FetchBalance(w, address, net)

\* The params of eth_getBlockByNumber (lines 436-438).
BlockParams(c) == <<"[">> \o Str(c.block_number) \o <<",", "false", "]">>

\* FetchBlockField with a default in the place of the panic.
FetchBlockFieldOrDefault(w, field, net) ==
    Let(_request(w, "eth_getBlockByNumber", BlockParams(w.c), net), LAMBDA r :
    Let(IF r.ret.some THEN AsStr(JIndex(r.ret.v, <<field>>)) ELSE None, LAMBDA v :
        IF r.w.panic THEN Panic(r.w)
        ELSE Ret(r.w, IF v.some THEN v ELSE Some(<<"0", "x", "0">>))))

\* The request and the field extraction the four block accessors share
\* (lines 436-446, 605-618, 628-638, 648-661): Some(string), or a panic.
FetchBlockField(w, field, net) ==
    Let(_request(w, "eth_getBlockByNumber", BlockParams(w.c), net), LAMBDA r :
    Let(IF r.ret.some THEN AsStr(JIndex(r.ret.v, <<field>>)) ELSE None, LAMBDA v :
        IF r.w.panic \/ ~v.some THEN Panic(r.w) ELSE Ret(r.w, v)))

FetchBlkHashEveryCall(w, net) ==
    Let(FetchBlockField(w, "hash", net), LAMBDA r :
        IF r.w.panic THEN r
        ELSE Ret([r.w EXCEPT !.c.block_hash = r.ret], r.ret.v))

\* fetch_blk_hash (lines 433-450)
fetch_blk_hash(w, net) ==
    IF ~w.c.block_hash.some
    THEN Let(FetchBlockField(w, "hash", net), LAMBDA r :
             IF r.w.panic THEN r
             ELSE Ret([r.w EXCEPT !.c.block_hash = r.ret], r.ret.v))
    ELSE Ret(w, w.c.block_hash.v)

\* fetch_blk_timestamp (lines 602-623)
fetch_blk_timestamp(w, net) ==
    Let(IF ~w.c.timestamp.some
        THEN Let(FetchBlockField(w, "timestamp", net), LAMBDA f :
                 IF f.w.panic THEN f.w ELSE [f.w EXCEPT !.c.timestamp = f.ret])
        ELSE w,
        LAMBDA w2 :
        IF w2.panic THEN Panic(w2)
        ELSE Let(U256FromStr(w2.c.timestamp.v), LAMBDA timestamp :
                 IF ~timestamp.some THEN Panic(w2) ELSE Ret(w2, timestamp.v)))

\* EVMAddress::from_str: an optional "0x" and the 40 hex digits.
AddressFromStr(s) ==
    LET digits == IF Len(s) >= 1 /\ s[1] = "0x" THEN Tail(s) ELSE s
    IN  IF Len(digits) = 1 /\ Len(digits[1]) = 2 THEN Some(digits[1]) ELSE None

\* fetch_blk_coinbase (lines 625-643)
fetch_blk_coinbase(w, net) ==
    Let(IF ~w.c.coinbase.some
        THEN Let(FetchBlockField(w, "miner", net), LAMBDA f :
                 IF f.w.panic THEN f.w ELSE [f.w EXCEPT !.c.coinbase = f.ret])
        ELSE w,
        LAMBDA w2 :
        IF w2.panic THEN Panic(w2)
        ELSE Let(AddressFromStr(w2.c.coinbase.v), LAMBDA coinbase :
                 IF ~coinbase.some THEN Panic(w2) ELSE Ret(w2, coinbase.v)))

\* fetch_blk_gaslimit (lines 645-666)
fetch_blk_gaslimit(w, net) ==
    Let(IF ~w.c.gaslimit.some
        THEN Let(FetchBlockField(w, "gasLimit", net), LAMBDA f :
                 IF f.w.panic THEN f.w ELSE [f.w EXCEPT !.c.gaslimit = f.ret])
        ELSE w,
        LAMBDA w2 :
        IF w2.panic THEN Panic(w2)
        ELSE Let(U256FromStr(w2.c.gaslimit.v), LAMBDA gaslimit :
                 IF ~gaslimit.some THEN Panic(w2) ELSE Ret(w2, gaslimit.v)))

\* get_contract_code past its cache check and its force_cache return
\* (lines 676-695): a failed request leaves the empty string.
FetchCode(w, address, net) ==
    Let(_request(w, "eth_getCode", StateParams(w.c, address, <<>>), net), LAMBDA r :
    Let(StringOrEmpty(r.ret), LAMBDA code :
        IF r.w.panic \/ ~code.some THEN Panic(r.w)
        ELSE Let(TrimStart0x(code.v), LAMBDA resp_string :
                 Ret([r.w EXCEPT !.c.code_cache = Put(@, address, resp_string)],
                     resp_string))))

GetContractCodeIgnoresForce(w, address, force_cache, net) ==
    IF address \in DOMAIN w.c.code_cache
    THEN Ret(w, w.c.code_cache[address])
    ELSE FetchCode(w, address, net)

\* get_contract_code (lines 668-696)
get_contract_code(w, address, force_cache, net) ==
    IF address \in DOMAIN w.c.code_cache
    THEN Ret(w, w.c.code_cache[address])
    ELSE IF force_cache THEN Ret(w, <<>>)
    ELSE FetchCode(w, address, net)

\* to_analysed(Bytecode::new_raw(bytes)): the analysis pass, opaque.
Analysed(bytes) == <<"analysed", bytes>>

\* get_contract_code_analyzed (lines 698-710)
get_contract_code_analyzed(w, address, force_cache, net) ==
    IF address \in DOMAIN w.c.code_cache_analyzed
    THEN Ret(w, w.c.code_cache_analyzed[address])
    ELSE Let(get_contract_code(w, address, force_cache, net), LAMBDA r :
         Let(HexDecode(r.ret), LAMBDA bytes :
             IF r.w.panic THEN r
             ELSE IF ~bytes.some THEN Panic(r.w)
             ELSE Ret([r.w EXCEPT !.c.code_cache_analyzed =
                                      Put(@, address, Analysed(bytes.v))],
                      Analysed(bytes.v))))

\* get_contract_slot past its cache check and its force_cache return
\* (lines 720-744): a failed request leaves the empty string, and an empty
\* payload is the value zero.
FetchSlot(w, address, slot, net) ==
    Let(_request(w, "eth_getStorageAt",
                 StateParams(w.c, address,
                             Str(<<"0", "x">> \o LowerHex(slot)) \o <<",">>), net),
        LAMBDA r :
    Let(StringOrEmpty(r.ret), LAMBDA resp_string :
        IF r.w.panic \/ ~resp_string.some THEN Panic(r.w)
        ELSE Let(TrimStart0x(resp_string.v), LAMBDA slot_suffix :
             IF slot_suffix = <<>>
             THEN Ret([r.w EXCEPT !.c.slot_cache = Put(@, <<address, slot>>, 0)], 0)
             ELSE Let(HexDecode(slot_suffix), LAMBDA bytes :
                  Let(IF bytes.some THEN TryFromBeSlice(bytes.v) ELSE None,
                      LAMBDA slot_value :
                      IF ~slot_value.some THEN Panic(r.w)
                      ELSE Ret([r.w EXCEPT !.c.slot_cache =
                                               Put(@, <<address, slot>>, slot_value.v)],
                               slot_value.v))))))

\* get_contract_slot (lines 712-745)
get_contract_slot(w, address, slot, force_cache, net) ==
    IF <<address, slot>> \in DOMAIN w.c.slot_cache
    THEN Ret(w, w.c.slot_cache[<<address, slot>>])
    ELSE IF force_cache THEN Ret(w, 0)
    ELSE FetchSlot(w, address, slot, net)

\* One entry of the storage member of a debug_storageRangeAt result
\* (lines 482-488): Some(<<key, value>>), None where the code panics.
StorageEntry(v) ==
    Let(AsStr(JIndex(v, <<"key">>)), LAMBDA key :
    Let(AsStr(JIndex(v, <<"value">>)), LAMBDA value :
    Let(IF key.some THEN FromStrRadix(TrimStart0x(key.v), 16) ELSE None, LAMBDA k :
    Let(IF value.some THEN FromStrRadix(TrimStart0x(value.v), 16) ELSE None, LAMBDA x :
        IF k.some /\ x.some THEN Some(<<k.v, x.v>>) ELSE None))))

\* fetch_storage_dump_uncached without the is_empty return: a dump with no
\* entries gives a present, empty map.
FetchStorageDumpEmptyMap(w, address, net) ==
    Let(fetch_blk_hash(w, net), LAMBDA h :
        IF h.w.panic THEN h
        ELSE
        Let(_request(h.w, "debug_storageRangeAt",
                     <<"[">> \o Str(h.ret) \o <<",", "0", ",">>
                        \o Str(AddressHex(address)) \o <<",">> \o Str(<<>>)
                        \o <<",", "1000000000000000", "]">>,
                     Then(net)),
            LAMBDA r :
            IF r.w.panic THEN Panic(r.w)
            ELSE IF ~r.ret.some THEN Ret(r.w, None)
            ELSE
            Let(AsObject(JIndex(r.ret.v, <<"storage">>)), LAMBDA kvs :
                IF ~kvs.some THEN Panic(r.w)
                ELSE
                Let({StorageEntry(kvs.v[k]) : k \in DOMAIN kvs.v}, LAMBDA entries :
                    IF \E e \in entries : ~e.some THEN Panic(r.w)
                    ELSE Ret(r.w, Some([k \in {e.v[1] : e \in entries} |->
                                   (CHOOSE e \in entries : e.v[1] = k).v[2]]))))))

\* fetch_storage_dump_uncached that anchors the dump at block_number in
\* the place of the block hash.
FetchStorageDumpByNumber(w, address, net) ==
    Let(fetch_blk_hash(w, net), LAMBDA h :
        IF h.w.panic THEN h
        ELSE
        Let(_request(h.w, "debug_storageRangeAt",
                     <<"[">> \o Str(h.w.c.block_number) \o <<",", "0", ",">>
                        \o Str(AddressHex(address)) \o <<",">> \o Str(<<>>)
                        \o <<",", "1000000000000000", "]">>,
                     Then(net)),
            LAMBDA r :
            IF r.w.panic THEN Panic(r.w)
            ELSE IF ~r.ret.some THEN Ret(r.w, None)
            ELSE
            Let(AsObject(JIndex(r.ret.v, <<"storage">>)), LAMBDA kvs :
                IF ~kvs.some THEN Panic(r.w)
                ELSE IF DOMAIN kvs.v = {} THEN Ret(r.w, None)
                ELSE
                Let({StorageEntry(kvs.v[k]) : k \in DOMAIN kvs.v}, LAMBDA entries :
                    IF \E e \in entries : ~e.some THEN Panic(r.w)
                    ELSE Ret(r.w, Some([k \in {e.v[1] : e \in entries} |->
                                   (CHOOSE e \in entries : e.v[1] = k).v[2]]))))))

\* fetch_storage_dump_uncached (lines 462-495).  The entries of one dump
\* have distinct keys in the model, so the order of insertion is immaterial.
fetch_storage_dump_uncached(w, address, net) ==
    Let(fetch_blk_hash(w, net), LAMBDA h :
        IF h.w.panic THEN h
        ELSE
        Let(_request(h.w, "debug_storageRangeAt",
                     <<"[">> \o Str(h.ret) \o <<",", "0", ",">>
                        \o Str(AddressHex(address)) \o <<",">> \o Str(<<>>)
                        \o <<",", "1000000000000000", "]">>,
                     Then(net)),
            LAMBDA r :
            IF r.w.panic THEN Panic(r.w)
            ELSE IF ~r.ret.some THEN Ret(r.w, None)
            ELSE
            Let(AsObject(JIndex(r.ret.v, <<"storage">>)), LAMBDA kvs :
                IF ~kvs.some THEN Panic(r.w)
                ELSE IF DOMAIN kvs.v = {} THEN Ret(r.w, None)
                ELSE
                Let({StorageEntry(kvs.v[k]) : k \in DOMAIN kvs.v}, LAMBDA entries :
                    IF \E e \in entries : ~e.some THEN Panic(r.w)
                    ELSE Ret(r.w, Some([k \in {e.v[1] : e \in entries} |->
                                   (CHOOSE e \in entries : e.v[1] = k).v[2]]))))))

\* fetch_storage_dump (lines 452-460)
fetch_storage_dump(w, address, net) ==
    IF address \in DOMAIN w.c.storage_dump_cache
    THEN Ret(w, w.c.storage_dump_cache[address])
    ELSE Let(fetch_storage_dump_uncached(w, address, net), LAMBDA r :
             IF r.w.panic THEN r
             ELSE Ret([r.w EXCEPT !.c.storage_dump_cache = Put(@, address, r.ret)],
                      r.ret))

NotVerified == <<"Contract source code not verified">>

\* The URL of fetch_abi_uncached (lines 502-511); pick stands for
\* rand::random::<usize>().
AbiEndpoint(c, address, pick) ==
    <<c.etherscan_base, "?module=contract&action=getabi&address=">>
        \o AddressHex(address) \o <<"&format=json&apikey=">>
        \o (IF c.etherscan_api_key # <<>>
            THEN <<c.etherscan_api_key[(pick % Len(c.etherscan_api_key)) + 1]>>
            ELSE <<>>)

\* fetch_abi_uncached without the test for the literal of line 521.
FetchAbiKeepsNotVerified(w, address, pick, net) ==
    Let(get(w, AbiEndpoint(w.c, address, pick), net), LAMBDA r :
    Let(IF r.ret.some THEN FromJson(r.ret.v) ELSE None, LAMBDA json :
    Let(IF json.some THEN AsStr(JIndex(json.v, <<"result">>)) ELSE None,
        LAMBDA result_parsed :
        IF r.w.panic THEN Panic(r.w)
        ELSE IF ~result_parsed.some THEN Ret(r.w, None)
        ELSE Ret(r.w, Some(result_parsed.v)))))

\* fetch_abi_uncached (lines 497-538)
fetch_abi_uncached(w, address, pick, net) ==
    Let(get(w, AbiEndpoint(w.c, address, pick), net), LAMBDA r :
    Let(IF r.ret.some THEN FromJson(r.ret.v) ELSE None, LAMBDA json :
    Let(IF json.some THEN AsStr(JIndex(json.v, <<"result">>)) ELSE None,
        LAMBDA result_parsed :
        IF r.w.panic THEN Panic(r.w)
        ELSE IF ~result_parsed.some \/ result_parsed.v = NotVerified THEN Ret(r.w, None)
        ELSE Ret(r.w, Some(result_parsed.v)))))

FetchAbiNoCacheCheck(w, address, pick, net) ==
    Let(fetch_abi_uncached(w, address, pick, net), LAMBDA r :
        IF r.w.panic THEN r
        ELSE Ret([r.w EXCEPT !.c.abi_cache = Put(@, address, r.ret)], r.ret))

\* fetch_abi (lines 540-547)
fetch_abi(w, address, pick, net) ==
    IF address \in DOMAIN w.c.abi_cache
    THEN Ret(w, w.c.abi_cache[address])
    ELSE Let(fetch_abi_uncached(w, address, pick, net), LAMBDA r :
             IF r.w.panic THEN r
             ELSE Ret([r.w EXCEPT !.c.abi_cache = Put(@, address, r.ret)], r.ret))

\* str::to_lowercase, on the fragments the model uses.
ToLowercase(s) ==
    [i \in DOMAIN s |-> CASE s[i] = "A1" -> "a1" [] s[i] = "0X" -> "0x" [] OTHER -> s[i]]

\* The URL get_pair asks (lines 755-759).
PairUrl(token, network, is_pegged, weth) ==
    IF is_pegged
    THEN <<"https://pairs.infra.fuzz.land/single_pair/", network, "/">> \o token
            \o <<"/">> \o weth
    ELSE <<"https://pairs.infra.fuzz.land/pairs/", network, "/">> \o token

\* The PairData literal (lines 774-792); None where an unwrap panics.  The
\* cast "as u32" of a decimals count that is not negative changes no value
\* below 2^32, and the model has none above.
MakePairData(item, token, is_pegged, pair) ==
    Let([token0 |-> AsStr(JIndex(item, <<"token0">>)),
         token1 |-> AsStr(JIndex(item, <<"token1">>)),
         token0_decimals |-> AsI64(JIndex(item, <<"token0_decimals">>)),
         token1_decimals |-> AsI64(JIndex(item, <<"token1_decimals">>)),
         interface |-> AsStr(JIndex(item, <<"interface">>))],
        LAMBDA f :
        IF ~f.token0.some \/ ~f.token1.some \/ ~f.token0_decimals.some
           \/ ~f.token1_decimals.some \/ ~f.interface.some
        THEN None
        ELSE Some([src |-> IF is_pegged THEN <<"pegged">> ELSE <<"v2">>,
                   in_ |-> IF token = f.token0.v THEN 0 ELSE 1,
                   pair |-> pair,
                   next |-> IF token = f.token0.v THEN f.token1.v ELSE f.token0.v,
                   in_token |-> token,
                   src_exact |-> f.interface.v,
                   rate |-> 0,
                   initial_reserves_0 |-> <<>>,
                   initial_reserves_1 |-> <<>>,
                   decimals_0 |-> IF f.token0_decimals.v >= 0
                                  THEN f.token0_decimals.v ELSE 0,
                   decimals_1 |-> IF f.token1_decimals.v >= 0
                                  THEN f.token1_decimals.v ELSE 0]))

\* The loop of get_pair without the skip of a pool that has no code.
RECURSIVE PairsFromKeepsEmpty(_, _, _, _, _, _, _)
PairsFromKeepsEmpty(w, resp_pairs, i, token, is_pegged, net, pairs) ==
    IF i > Len(resp_pairs) THEN Ret(w, pairs)
    ELSE
    Let(AsStr(JIndex(resp_pairs[i], <<"pair">>)), LAMBDA pair :
    Let(IF pair.some THEN AddressFromStr(pair.v) ELSE None, LAMBDA address :
        IF ~address.some THEN Panic(w)
        ELSE
        Let(get_contract_code(w, address.v, FALSE, net), LAMBDA r :
            IF r.w.panic THEN r
            ELSE
            Let(MakePairData(resp_pairs[i], token, is_pegged, pair.v), LAMBDA data :
                IF ~data.some THEN Panic(r.w)
                ELSE PairsFromKeepsEmpty(r.w, resp_pairs, i + 1, token, is_pegged,
                                         Then(net), Append(pairs, data.v))))))

\* The loop of get_pair with the insert into pair_cache moved into it:
\* the list so far is stored after every candidate.
RECURSIVE PairsFromCachingEach(_, _, _, _, _, _, _)
PairsFromCachingEach(w, resp_pairs, i, token, is_pegged, net, pairs) ==
    IF i > Len(resp_pairs) THEN Ret(w, pairs)
    ELSE
    Let(AsStr(JIndex(resp_pairs[i], <<"pair">>)), LAMBDA pair :
    Let(IF pair.some THEN AddressFromStr(pair.v) ELSE None, LAMBDA address :
        IF ~address.some THEN Panic(w)
        ELSE
        Let(get_contract_code(w, address.v, FALSE, net), LAMBDA r :
            IF r.w.panic THEN r
            ELSE IF r.ret = <<>>
            THEN PairsFromCachingEach(r.w, resp_pairs, i + 1, token, is_pegged,
                                      Then(net), pairs)
            ELSE
            Let(MakePairData(resp_pairs[i], token, is_pegged, pair.v), LAMBDA data :
                IF ~data.some THEN Panic(r.w)
                ELSE PairsFromCachingEach(
                         [r.w EXCEPT !.c.pair_cache =
                                         Put(@, AddressFromStr(token).v,
                                             Append(pairs, data.v))],
                         resp_pairs, i + 1, token, is_pegged, Then(net),
                         Append(pairs, data.v))))))

\* The loop of get_pair over the candidates (lines 762-795), from item i on.
RECURSIVE PairsFrom(_, _, _, _, _, _, _)
PairsFrom(w, resp_pairs, i, token, is_pegged, net, pairs) ==
    IF i > Len(resp_pairs) THEN Ret(w, pairs)
    ELSE
    Let(AsStr(JIndex(resp_pairs[i], <<"pair">>)), LAMBDA pair :
    Let(IF pair.some THEN AddressFromStr(pair.v) ELSE None, LAMBDA address :
        IF ~address.some THEN Panic(w)
        ELSE
        Let(get_contract_code(w, address.v, FALSE, net), LAMBDA r :
            IF r.w.panic THEN r
            ELSE IF r.ret = <<>>
            THEN PairsFrom(r.w, resp_pairs, i + 1, token, is_pegged, Then(net), pairs)
            ELSE
            Let(MakePairData(resp_pairs[i], token, is_pegged, pair.v), LAMBDA data :
                IF ~data.some THEN Panic(r.w)
                ELSE PairsFrom(r.w, resp_pairs, i + 1, token, is_pegged, Then(net),
                               Append(pairs, data.v))))))

\* reqwest::blocking::get(url).unwrap().json().unwrap() (line 760): page is
\* what the pair service does to the request.
DirectGet(w, url, page) ==
    Let([w EXCEPT !.reqs = Append(@, [verb |-> "reqwest", url |-> url, data |-> <<>>,
                                      lookup |-> FALSE, hit |-> FALSE,
                                      attempts |-> 1,
                                      resp |-> IF page.k = "body"
                                               THEN Some(page.text) ELSE None])],
        LAMBDA sent :
        Let(IF page.k = "body" THEN FromJson(page.text) ELSE None, LAMBDA json :
            IF ~json.some THEN Panic(sent) ELSE Ret(sent, json.v)))

\* get_pair (lines 749-801)
get_pair(w, token_in, network, is_pegged, weth, page, net) ==
    Let(ToLowercase(token_in), LAMBDA token :
    Let(AddressFromStr(token), LAMBDA key :
        IF ~key.some THEN Panic(w)
        ELSE IF key.v \in DOMAIN w.c.pair_cache THEN Ret(w, w.c.pair_cache[key.v])
        ELSE
        Let(DirectGet(w, PairUrl(token, network, is_pegged, weth), page), LAMBDA resp :
            IF resp.w.panic THEN resp
            ELSE
            Let(AsArray(resp.ret), LAMBDA resp_pairs :
            Let(IF resp_pairs.some
                THEN PairsFrom(resp.w, resp_pairs.v, 1, token, is_pegged, net, <<>>)
                ELSE Ret(resp.w, <<>>),
                LAMBDA r :
                IF r.w.panic THEN r
                ELSE Ret([r.w EXCEPT !.c.pair_cache = Put(@, key.v, r.ret)],
                         r.ret))))))

ReserveLen == 196

\* fetch_reserve without the test of the length.
FetchReserveAnyLength(w, pair, net) ==
    Let(_request_with_id(w, "eth_call",
            <<"[", "{">> \o Str(<<"data">>) \o <<":">> \o Str(<<"0x0902f1ac">>)
               \o <<",">> \o Str(<<"id">>) \o <<":", "1", ",">>
               \o Str(<<"to">>) \o <<":">> \o Str(pair) \o <<"}", ",">>
               \o Str(w.c.block_number) \o <<"]">>,
            "1", net),
        LAMBDA r :
        Let(IF r.ret.some THEN to_string(r.ret.v) ELSE <<>>, LAMBDA result :
            IF r.w.panic THEN Panic(r.w)
            ELSE Ret(r.w, <<Slice(result, 3, 67), Slice(result, 67, 131)>>)))

\* fetch_reserve (lines 803-829): takes &self; the forced code lookup of
\* the failure path runs on a clone and leaves the session as it was.
fetch_reserve(w, pair, net) ==
    Let(_request_with_id(w, "eth_call",
            <<"[", "{">> \o Str(<<"data">>) \o <<":">> \o Str(<<"0x0902f1ac">>)
               \o <<",">> \o Str(<<"id">>) \o <<":", "1", ",">>
               \o Str(<<"to">>) \o <<":">> \o Str(pair) \o <<"}", ",">>
               \o Str(w.c.block_number) \o <<"]">>,
            "1", net),
        LAMBDA r :
        Let(IF r.ret.some THEN to_string(r.ret.v) ELSE <<>>, LAMBDA result :
            IF r.w.panic \/ StrLen(result) # ReserveLen THEN Panic(r.w)
            ELSE Ret(r.w, <<Slice(result, 3, 67), Slice(result, 67, 131)>>)))

----------------------------------------------------------------------------
(* The session as a state machine: one action per public operation, each  *)
(* the whole call.  obs and hist record what a caller and the network see *)
(* of it; they are written by Do and read by no operation.                *)

\* The accessor and the key a request was made for, read off the request.
Fetcher(req) ==
    IF req.verb = "reqwest" THEN <<"get_pair", <<req.url[5]>>>>
    ELSE IF req.verb = "get" THEN <<"fetch_abi", <<req.url[4]>>>>
    ELSE
    Let(FromJson(req.data), LAMBDA json :
    Let(IF json.some THEN JIndex(json.v, <<"method">>).s ELSE <<>>, LAMBDA method :
    Let(IF json.some THEN JIndex(json.v, <<"params">>).a ELSE <<>>, LAMBDA params :
        CASE method = <<"eth_getBalance">> ->
                <<"get_balance", <<params[1].s[2]>>>>
          [] method = <<"eth_getCode">> ->
                <<"get_contract_code", <<params[1].s[2]>>>>
          [] method = <<"eth_getStorageAt">> ->
                <<"get_contract_slot", <<params[1].s[2], U256FromStr(params[2].s).v>>>>
          [] method = <<"debug_storageRangeAt">> ->
                <<"fetch_storage_dump", <<params[3].s[2]>>>>
          [] OTHER -> <<"other", <<>>>>)))

StateReads == {"get_balance", "get_contract_code", "get_contract_slot"}

\* The block parameter of a state read: the last of its params.
BlockOf(req) ==
    Let(JIndex(FromJson(req.data).v, <<"params">>).a, LAMBDA params :
        params[Len(params)].s)

MaxCount == 2

RECURSIVE Counted(_, _)
Counted(fetches, reqs) ==
    IF reqs = <<>> THEN fetches
    ELSE Let(Fetcher(Head(reqs)), LAMBDA k :
         Let(IF k \in DOMAIN fetches THEN fetches[k] ELSE 0, LAMBDA n :
             Counted(IF k[1] = "other" THEN fetches
                     ELSE Put(fetches, k, IF n < MaxCount THEN n + 1 ELSE n),
                     Tail(reqs))))

Range(q) == {q[i] : i \in DOMAIN q}

NoObs ==
    [op |-> "new_raw", key |-> <<>>, force |-> FALSE, ret |-> <<>>, reqs |-> <<>>,
     panic |-> FALSE, later |-> FALSE, cached |-> FALSE]

NoHist == [fetches |-> <<>>, first |-> <<>>, blocks |-> {}]

\* The state after operation op on key, which went as r says; cached says
\* whether the key was in the accessor's map when the call began.
Do(op, key, force, cached, r) ==
    /\ ~obs.panic
    /\ cfg' = r.w.c
    /\ rpc_cache' = r.w.store
    /\ obs' = [op |-> op, key |-> key, force |-> force, ret |-> r.ret,
               reqs |-> r.w.reqs, panic |-> r.w.panic,
               later |-> <<op, key>> \in DOMAIN hist.first, cached |-> cached]
    /\ hist' = [fetches |-> Counted(hist.fetches, r.w.reqs),
                first |-> IF r.w.panic \/ force \/ <<op, key>> \in DOMAIN hist.first
                          THEN hist.first
                          ELSE Put(hist.first, <<op, key>>, r.ret),
                blocks |-> hist.blocks \cup
                           {BlockOf(q) : q \in {x \in Range(r.w.reqs) :
                                                   Fetcher(x)[1] \in StateReads}}]
    /\ UNCHANGED <<call, latest, peer>>

Here == World(cfg, rpc_cache)

GetBalance(address, net) ==
    \E r \in {get_balance(Here, address, net)} :
        Do("get_balance", <<address>>, FALSE, address \in DOMAIN cfg.balance_cache, r)

GetContractCode(address, force_cache, net) ==
    \E r \in {get_contract_code(Here, address, force_cache, net)} :
        Do("get_contract_code", <<address>>, force_cache,
           address \in DOMAIN cfg.code_cache, r)

GetContractCodeAnalyzed(address, force_cache, net) ==
    \E r \in {get_contract_code_analyzed(Here, address, force_cache, net)} :
        Do("get_contract_code_analyzed", <<address>>, force_cache,
           address \in DOMAIN cfg.code_cache_analyzed, r)

GetContractSlot(address, slot, force_cache, net) ==
    \E r \in {get_contract_slot(Here, address, slot, force_cache, net)} :
        Do("get_contract_slot", <<address, slot>>, force_cache,
           <<address, slot>> \in DOMAIN cfg.slot_cache, r)

FetchAbi(address, pick, net) ==
    \E r \in {fetch_abi(Here, address, pick, net)} :
        Do("fetch_abi", <<address>>, FALSE, address \in DOMAIN cfg.abi_cache, r)

AddEtherscanApiKey(key) ==
    \E r \in {add_etherscan_api_key(Here, key)} :
        Do("add_etherscan_api_key", <<key>>, FALSE, FALSE, r)

FetchStorageDump(address, net) ==
    \E r \in {fetch_storage_dump(Here, address, net)} :
        Do("fetch_storage_dump", <<address>>, FALSE,
           address \in DOMAIN cfg.storage_dump_cache, r)

GetPair(token, network, is_pegged, weth, page, net) ==
    \E r \in {get_pair(Here, token, network, is_pegged, weth, page, net)},
       key \in {AddressFromStr(ToLowercase(token)).v} :
        Do("get_pair", <<key>>, FALSE, key \in DOMAIN cfg.pair_cache, r)

FetchReserve(pair, net) ==
    \E r \in {fetch_reserve(Here, pair, net)} :
        Do("fetch_reserve", <<pair>>, FALSE, FALSE, r)

FetchBlkHash(net) ==
    \E r \in {fetch_blk_hash(Here, net)} :
        Do("fetch_blk_hash", <<>>, FALSE, cfg.block_hash.some, r)

FetchBlkTimestamp(net) ==
    \E r \in {fetch_blk_timestamp(Here, net)} :
        Do("fetch_blk_timestamp", <<>>, FALSE, cfg.timestamp.some, r)

FetchBlkCoinbase(net) ==
    \E r \in {fetch_blk_coinbase(Here, net)} :
        Do("fetch_blk_coinbase", <<>>, FALSE, cfg.coinbase.some, r)

FetchBlkGaslimit(net) ==
    \E r \in {fetch_blk_gaslimit(Here, net)} :
        Do("fetch_blk_gaslimit", <<>>, FALSE, cfg.gaslimit.some, r)

SetLatestBlockNumber(net) ==
    \E r \in {set_latest_block_number(Here, net)} :
        Do("set_latest_block_number", <<>>, FALSE, FALSE, r)

\* The arguments of the constructor.
EndpointUrl == <<"http://rpc">>

ChainId == "56"

EtherscanBase == "http://scan/api"

PinnedBlock == 5

FirstLatest == 9

\* The session new_raw gives for a block number other than zero, which
\* asks the network nothing.
Fresh ==
    new_raw(<<>>, EndpointUrl, ChainId, PinnedBlock, EtherscanBase,
            [script |-> <<>>, save_ok |-> TRUE]).w.c

----------------------------------------------------------------------------
(* The requests and the remote's answers the Transport specification     *)
(* draws from.                                                            *)

ResultText(v) == <<"{">> \o Str(<<"result">>) \o <<":">> \o v \o <<"}">>

ErrorText == <<"{">> \o Str(<<"error">>) \o <<":">> \o Str(<<"boom">>) \o <<"}">>

RateLimitText == ResultText(Str(RateLimitMarker))

TUrls == {<<"http://scan/a">>, <<"http://scan/b">>}

TPosts == {<<<<"http://rpc">>, <<"{eth_x}">>>>}

TTexts ==
    {ResultText(Str(<<"0x5">>)), ResultText(Str(<<"0x7">>)), ErrorText, RateLimitText}

TOutcomes == {SendErr, ReadErr} \cup {Body(t) : t \in TTexts}

TInit ==
    /\ rpc_cache = <<>>
    /\ call = Idle
    /\ peer = Idle
    /\ cfg = Fresh
    /\ obs = NoObs
    /\ hist = NoHist
    /\ latest = FirstLatest

TNext ==
    \/ \E url \in TUrls : GetCall(url)
    \/ \E p \in TPosts : PostCall(p[1], p[2])
    \/ \E o \in TOutcomes, save_ok \in BOOLEAN : Attempt(o, save_ok)

TSpec == TInit /\ [][TNext]_vars

\* Transport with a retry loop that is not left standing: the thread that
\* called get or post goes on to the next invocation of the closure, and
\* every HTTP attempt ends, the client having a timeout (line 294).
LSpec ==
    TSpec /\ WF_vars(\E o \in TOutcomes, save_ok \in BOOLEAN : Attempt(o, save_ok))

----------------------------------------------------------------------------
(* Two sessions over one persistent store: each runs get and post as     *)
(* above, a step at a time, and the steps of the two interleave.          *)

\* get/post of the second session up to the retry loop.
PeerEnter(verb, url, data) ==
    LET hash == Hash(KeyOf(verb, url, data))
        l == Load(rpc_cache, hash)
        had == hash \in DOMAIN rpc_cache
        c == [Idle EXCEPT !.verb = verb, !.url = url, !.data = data,
                          !.hash = hash, !.had_entry = had,
                          !.stored = IF had THEN rpc_cache[hash] ELSE <<>>,
                          !.before = Summary(peer)]
    IN  IF l.some
        THEN [c EXCEPT !.pc = "done", !.ret = Some(l.v)]
        ELSE [c EXCEPT !.pc = "loop", !.current_try = 1]

PeerGetCall(url) ==
    /\ peer.pc \in {"idle", "done"}
    /\ peer' = PeerEnter("get", url, <<>>)
    /\ UNCHANGED <<rpc_cache, session, call>>

PeerPostCall(url, data) ==
    /\ peer.pc \in {"idle", "done"}
    /\ peer' = PeerEnter("post", url, data)
    /\ UNCHANGED <<rpc_cache, session, call>>

\* One invocation of the closure in the second session.
PeerAttempt(o, save_ok) ==
    /\ peer.pc = "loop"
    /\ LET res == Operation(peer.verb, peer.current_try, o)
           c == [peer EXCEPT !.attempts = IF res.sent THEN @ + 1 ELSE @,
                             !.last = IF res.sent THEN o ELSE @]
           f == Finish(rpc_cache, peer.hash, res, save_ok)
       IN  IF res.r = "Retry"
           THEN /\ peer' = [c EXCEPT !.current_try = @ + 1]
                /\ UNCHANGED <<rpc_cache, session, call>>
           ELSE /\ peer' = [c EXCEPT !.pc = IF f.panic THEN "panic" ELSE "done",
                                     !.ret = f.ret]
                /\ rpc_cache' = f.cache
                /\ UNCHANGED <<session, call>>

\* The remote answers the same request with one text or another as its
\* state moves on, or not at all.
COutcomes == {SendErr, Body(ResultText(Str(<<"0x5">>))), Body(ResultText(Str(<<"0x7">>)))}

CNext ==
    \/ \E url \in {<<"http://scan/a">>} : GetCall(url)
    \/ \E p \in TPosts : PostCall(p[1], p[2])
    \/ \E o \in COutcomes : Attempt(o, TRUE)
    \/ \E url \in {<<"http://scan/a">>} : PeerGetCall(url)
    \/ \E p \in TPosts : PeerPostCall(p[1], p[2])
    \/ \E o \in COutcomes : PeerAttempt(o, TRUE)

CSpec == TInit /\ [][CNext]_vars

----------------------------------------------------------------------------
(* The sessions the accessor specifications explore: the addresses asked  *)
(* for and what the network answers.                                      *)

Addresses == {"a1"}

Pools == {"b2"}

Slots == {1}

ValueAddresses == {"a1", "a2"}

ReservePools == {"b2", "b3"}

\* A body that is no JSON.
HtmlText == <<"<html>">>

Hex05 == <<"0", "x", "0", "5">>

Hex07 == <<"0", "x", "0", "7">>

\* The request is answered at once with text t, and the store takes it.
Reply(t) == [script |-> <<Body(t)>>, save_ok |-> TRUE]

\* Every attempt fails to send.
Down == [script |-> <<>>, save_ok |-> TRUE]

\* first for this request, second for the one after it.
Both(first, second) == [script |-> first.script, save_ok |-> first.save_ok,
                        then |-> second]

OneNet == {Reply(ResultText(Str(Hex05)))}

GoodNets == {Reply(ResultText(Str(Hex05))), Reply(ResultText(Str(Hex07)))}

StateNets == GoodNets \cup {Down}

AbiNets == {Reply(ResultText(Str(<<"[abi]">>))), Reply(ResultText(Str(NotVerified)))}

Object(members) == <<"{">> \o members \o <<"}">>

Member(key, v) == Str(<<key>>) \o <<":">> \o v

BlockText(hash, timestamp) ==
    ResultText(Object(Member("hash", Str(<<hash>>)) \o <<",">>
                      \o Member("timestamp", Str(timestamp)) \o <<",">>
                      \o Member("miner", Str(AddressHex("c3"))) \o <<",">>
                      \o Member("gasLimit", Str(Hex07))))

\* A block of which the node gives the hash alone.
HashOnlyText == ResultText(Object(Member("hash", Str(<<"0xh5">>))))

\* The node does not know the block: the result is null.
NullText == ResultText(<<"null">>)

BlockNets ==
    {Reply(BlockText("0xh5", Hex05)), Reply(BlockText("0xh9", Hex07)),
     Reply(BlockText("0xh5", <<"z">>)), Reply(HashOnlyText), Reply(NullText),
     Reply(ErrorText), Down}

\* eth_blockNumber answered with block n.
LatestNet(n) == Reply(ResultText(Str(<<"0", "x">> \o LowerHex(n))))

DumpText(value) ==
    ResultText(Object(Member("storage",
        Object(Member("k1", Object(Member("key", Str(<<"0", "x", "1">>)) \o <<",">>
                                   \o Member("value", Str(value))))))))

EmptyDumpText == ResultText(Object(Member("storage", Object(<<>>))))

DumpNets ==
    {Both(b, d) : b \in {Reply(BlockText("0xh5", Hex05))},
                  d \in {Reply(DumpText(Hex05)), Reply(EmptyDumpText)}}

PairItem(pool) ==
    Object(Member("pair", Str(AddressHex(pool))) \o <<",">>
           \o Member("token0", Str(AddressHex("a1"))) \o <<",">>
           \o Member("token1", Str(AddressHex("c3"))) \o <<",">>
           \o Member("token0_decimals", <<"18">>) \o <<",">>
           \o Member("token1_decimals", <<"-1">>) \o <<",">>
           \o Member("interface", Str(<<"uniswapv2">>)))

Pages ==
    {[k |-> "body", text |-> <<"[", "]">>],
     [k |-> "body", text |-> <<"[">> \o PairItem("b2") \o <<"]">>]}

Tokens == {<<"0x", "A1">>}

Word(ch) == ch \o ch \o ch \o ch \o ch \o ch \o ch \o ch

\* 64 hex digits, all ch.
Word64(ch) == Word(Word(ch))

ReserveText ==
    ResultText(Str(<<"0", "x", Word64("1"), Word64("2"), Word64("3")>>))

ReserveNets == {Reply(ReserveText), Down}

Init ==
    /\ rpc_cache = <<>>
    /\ call = Idle
    /\ peer = Idle
    /\ cfg = Fresh
    /\ obs = NoObs
    /\ hist = NoHist
    /\ latest = FirstLatest

Next ==
    \/ \E a \in Addresses, net \in {Reply(ResultText(Str(Hex05))), Down} :
          GetBalance(a, net)
    \/ \E a \in Addresses, f \in BOOLEAN, net \in OneNet : GetContractCode(a, f, net)
    \/ \E a \in Addresses, net \in OneNet : GetContractCodeAnalyzed(a, FALSE, net)
    \/ \E a \in Addresses, sl \in Slots, f \in BOOLEAN, net \in OneNet :
          GetContractSlot(a, sl, f, net)
    \/ \E a \in Addresses, net \in AbiNets : FetchAbi(a, 0, net)
    \/ \E a \in Addresses, net \in DumpNets : FetchStorageDump(a, net)
    \/ \E t \in Tokens, p \in Pages, net \in OneNet :
          GetPair(t, "bsc", FALSE, <<>>, p, net)
    \/ \E a \in Pools, net \in ReserveNets : FetchReserve(AddressHex(a), net)

Spec == Init /\ [][Next]_vars

----------------------------------------------------------------------------
(* The forced and the unforced reads of code and slots.                   *)

FNext ==
    \/ \E a \in Addresses, f \in BOOLEAN, net \in StateNets : GetContractCode(a, f, net)
    \/ \E a \in Addresses, f \in BOOLEAN, net \in StateNets :
          GetContractCodeAnalyzed(a, f, net)
    \/ \E a \in Addresses, sl \in Slots, f \in BOOLEAN, net \in StateNets :
          GetContractSlot(a, sl, f, net)

FSpec == Init /\ [][FNext]_vars

----------------------------------------------------------------------------
(* The block the session reads at, with a remote whose latest block       *)
(* advances.  The session is built for a given block or for the latest.  *)

MaxLatest == 11

\* A block number whose hexadecimal form has letters.
LetteredBlock == 171

PInit ==
    \E block_number \in {0, PinnedBlock, LetteredBlock},
       net \in {LatestNet(FirstLatest), Reply(ErrorText), Down} :
        \E r \in {new_raw(<<>>, EndpointUrl, ChainId, block_number, EtherscanBase,
                          net)} :
            /\ rpc_cache = r.w.store
            /\ call = Idle
            /\ peer = Idle
            /\ cfg = r.w.c
            /\ obs = [NoObs EXCEPT !.key = <<block_number>>, !.reqs = r.w.reqs,
                                   !.panic = r.w.panic]
            /\ hist = NoHist
            /\ latest = FirstLatest

\* The remote node gets a new block.
Tick ==
    /\ latest < MaxLatest
    /\ latest' = latest + 1
    /\ UNCHANGED <<rpc_cache, call, cfg, obs, hist, peer>>

PNext ==
    \/ Tick
    \/ SetLatestBlockNumber(LatestNet(latest))
    \/ \E a \in Addresses, net \in OneNet : GetBalance(a, net)
    \/ \E a \in Addresses, net \in OneNet : GetContractCode(a, FALSE, net)
    \/ \E a \in Addresses, sl \in Slots, net \in OneNet :
          GetContractSlot(a, sl, FALSE, net)

PSpec == PInit /\ [][PNext]_vars

----------------------------------------------------------------------------
(* The block context: the four lazy fields, the operation that moves the  *)
(* block, and the dump that asks for the hash.                            *)

BNext ==
    \/ \E net \in BlockNets : FetchBlkHash(net)
    \/ \E net \in BlockNets : FetchBlkTimestamp(net)
    \/ \E net \in BlockNets : FetchBlkCoinbase(net)
    \/ \E net \in BlockNets : FetchBlkGaslimit(net)
    \/ SetLatestBlockNumber(LatestNet(latest))
    \/ \E a \in Addresses, net \in DumpNets : FetchStorageDump(a, net)

BSpec == Init /\ [][BNext]_vars

----------------------------------------------------------------------------
(* The storage dumps, with dumps of no, one and two entries.              *)

StorageMember(name, key, value) ==
    Member(name, Object(Member("key", Str(key)) \o <<",">>
                        \o Member("value", Str(value))))

\* A dump of two entries.
TwoDumpText ==
    ResultText(Object(Member("storage",
        Object(StorageMember("k1", <<"0", "x", "1">>, Hex07) \o <<",">>
               \o StorageMember("k2", <<"0", "x", "2", "a">>, <<"0", "x", "f", "f">>)))))

\* A dump whose entry has no value.
BadDumpText ==
    ResultText(Object(Member("storage",
        Object(Member("k1", Object(Member("key", Str(<<"0", "x", "1">>))))))))

DumpAnswers ==
    {Reply(DumpText(Hex05)), Reply(TwoDumpText), Reply(EmptyDumpText),
     Reply(BadDumpText), Down}

DNext ==
    \/ \E net \in {Reply(BlockText("0xh5", Hex05))} : FetchBlkHash(net)
    \/ \E a \in ValueAddresses, d \in DumpAnswers :
          FetchStorageDump(a, Both(Reply(BlockText("0xh5", Hex05)), d))

DSpec == Init /\ [][DNext]_vars

----------------------------------------------------------------------------
(* The reserves of pools, with results of the right and of other lengths. *)

\* A result of 2 + 3 * 64 characters given in pieces of eight.
FineReserveText ==
    ResultText(Str(<<"0", "x">>
        \o <<Word("a"), Word("b"), Word("a"), Word("b"),
             Word("a"), Word("b"), Word("a"), Word("b")>>
        \o <<Word("c"), Word("c"), Word("c"), Word("c"),
             Word("d"), Word("d"), Word("d"), Word("d")>>
        \o <<Word64("0")>>))

\* Results one word short and one character long.
ShortReserveText == ResultText(Str(<<"0", "x", Word64("1"), Word64("2")>>))

LongReserveText ==
    ResultText(Str(<<"0", "x", Word64("1"), Word64("2"), Word64("3"), "0">>))

ReserveAnswers ==
    {Reply(ReserveText), Reply(FineReserveText), Reply(ShortReserveText),
     Reply(LongReserveText), Reply(ErrorText), Down}

RNext ==
    \/ \E a \in ReservePools, net \in ReserveAnswers : FetchReserve(AddressHex(a), net)
    \/ \E a \in ReservePools, net \in OneNet : GetContractCode(a, FALSE, net)

RSpec == Init /\ [][RNext]_vars

----------------------------------------------------------------------------
(* The explorer, with every kind of answer it can give.                   *)

ApiKeys == {"K1", "K2"}

MaxKeys == 2

\* A body the explorer gives without a result.
NoResultText == <<"{">> \o Member("status", Str(<<"0">>)) \o <<"}">>

\* The ABI, the literal for an unverified contract, a body that is no
\* JSON, bodies without a result or with one that is no string, and an
\* explorer out of reach.
AbiAnswers ==
    {Reply(ResultText(Str(<<"[abi]">>))), Reply(ResultText(Str(NotVerified))),
     Reply(HtmlText), Reply(NoResultText), Reply(ErrorText),
     Reply(ResultText(<<"6">>)), Down}

ANext ==
    \/ \E key \in ApiKeys :
          Len(cfg.etherscan_api_key) < MaxKeys /\ AddEtherscanApiKey(key)
    \/ \E a \in ValueAddresses, pick \in {0, 1}, net \in AbiAnswers :
          FetchAbi(a, pick, net)

ASpec == Init /\ [][ANext]_vars

----------------------------------------------------------------------------
(* The pair service, with every kind of answer it can give.               *)

PairTokens == {<<"0x", "A1">>, <<"0x", "c3">>}

\* A candidate without its interface.
BadPairItem(pool) ==
    Object(Member("pair", Str(AddressHex(pool))) \o <<",">>
           \o Member("token0", Str(AddressHex("a1"))) \o <<",">>
           \o Member("token1", Str(AddressHex("c3"))) \o <<",">>
           \o Member("token0_decimals", <<"18">>) \o <<",">>
           \o Member("token1_decimals", <<"6">>))

\* No candidates, one, two of which the second is malformed, two that are
\* well formed, a body that is no JSON, and a service out of reach.
PairAnswers ==
    {[k |-> "body", text |-> <<"[", "]">>],
     [k |-> "body", text |-> <<"[">> \o PairItem("b2") \o <<"]">>],
     [k |-> "body", text |-> <<"[">> \o PairItem("b2") \o <<",">>
                                \o BadPairItem("b3") \o <<"]">>],
     [k |-> "body", text |-> <<"[">> \o PairItem("b3") \o <<",">>
                                \o PairItem("b2") \o <<"]">>],
     [k |-> "body", text |-> HtmlText],
     [k |-> "fail", text |-> <<>>]}

GNext ==
    \/ \E t \in PairTokens, pegged \in BOOLEAN, p \in PairAnswers,
          net \in {Reply(ResultText(Str(Hex05))), Down,
                   Both(Down, Reply(ResultText(Str(Hex05))))} :
          GetPair(t, "bsc", pegged, <<"0x", "e5">>, p, net)
    \/ \E a \in ReservePools, net \in OneNet : GetContractCode(a, FALSE, net)

GSpec == Init /\ [][GNext]_vars

----------------------------------------------------------------------------
(* The state reads alone, with every kind of answer the node can give.    *)

\* Answers with a result that is a number in text, and answers with no
\* result: a JSON-RPC error, a body that is no JSON, a node out of reach.
ValueNets ==
    {Reply(ResultText(Str(<<"0", "x", "5">>))),
     Reply(ResultText(Str(<<"0", "x", "1", "f">>))),
     Reply(ResultText(Str(<<"1", "2">>))),
     Reply(ErrorText), Reply(HtmlText), Down}

VNext ==
    \/ \E a \in ValueAddresses, net \in ValueNets : GetBalance(a, net)
    \/ \E a \in Addresses, net \in {Reply(ResultText(Str(Hex05))), Reply(HtmlText), Down} :
          GetContractCode(a, FALSE, net)
    \/ \E a \in Addresses, sl \in Slots,
          net \in {Reply(ResultText(Str(Hex05))), Reply(ErrorText), Down} :
          GetContractSlot(a, sl, FALSE, net)

VSpec == Init /\ [][VNext]_vars

----------------------------------------------------------------------------
(* Runs of the program one after the other over one persistent store:     *)
(* each run builds its session with new_raw, on what the earlier runs     *)
(* left in the store, while the remote's latest block advances.           *)

\* A run starts: new_raw (lines 284-313) over the store as it is, with
\* fresh in-memory caches.
NewRaw(block_number, net) ==
    \E r \in {new_raw(rpc_cache, EndpointUrl, ChainId, block_number, EtherscanBase,
                      net)} :
        /\ rpc_cache' = r.w.store
        /\ cfg' = r.w.c
        /\ obs' = [NoObs EXCEPT !.key = <<block_number>>, !.reqs = r.w.reqs,
                                !.panic = r.w.panic]
        /\ hist' = NoHist
        /\ UNCHANGED <<call, latest, peer>>

NNext ==
    \/ Tick
    \/ \E block_number \in {0, PinnedBlock}, net \in {LatestNet(latest), Down} :
          NewRaw(block_number, net)
    \/ \E a \in Addresses, net \in {Reply(ResultText(Str(Hex05))), Down} :
          GetBalance(a, net)

NSpec == PInit /\ [][NNext]_vars

----------------------------------------------------------------------------
(* The keys get and post hash, as functions of the request.  A string is  *)
(* the sequence of its characters here; "get_" and "post_" stay whole,    *)
(* their first characters being outside the alphabet of the urls and the  *)
(* bodies drawn.                                                          *)

MaxRequests == 2

KeyUrls == {<<"a">>, <<"a", "_">>, <<"a", "_", "b">>}

KeyBodies == {<<>>, <<"c">>, <<"_", "c">>, <<"b", "_", "c">>}

KInit ==
    /\ rpc_cache = <<>>
    /\ call = Idle
    /\ peer = Idle
    /\ cfg = Fresh
    /\ obs = NoObs
    /\ hist = NoHist
    /\ latest = FirstLatest

\* The request is noted with the key the call made of it.
Keyed(verb, url, data, key) ==
    /\ Len(obs.reqs) < MaxRequests
    /\ obs' = [obs EXCEPT !.op = verb,
                          !.reqs = Append(@, [verb |-> verb, url |-> url,
                                              data |-> data]),
                          !.key = Append(@, key)]
    /\ UNCHANGED <<rpc_cache, call, cfg, hist, latest, peer>>

\* The key of get (lines 316-317).
KeyGet(url) == \E key \in {GetKey(url)} : Keyed("get", url, <<>>, key)

\* The key of post (lines 366-367).
KeyPost(url, data) == \E key \in {PostKey(url, data)} : Keyed("post", url, data, key)

KNext ==
    \/ \E url \in KeyUrls : KeyGet(url)
    \/ \E url \in KeyUrls, data \in KeyBodies : KeyPost(url, data)

KSpec == KInit /\ [][KNext]_vars

----------------------------------------------------------------------------
(* Claims about Transport, checked under TSpec.                           *)

\* The call in flight repeats the request of the call that returned just
\* before it.
SameAsBefore ==
    /\ call.before.verb = call.verb
    /\ call.before.url = call.url
    /\ call.before.data = call.data

\* The spec's classification of an attempt of get as retryable.
GetRetryable(o) ==
    o.k \in {"send_err", "read_err"} \/ Contains(o.text, RateLimitMarker)

\* The spec's classification of an attempt of post as retryable.
PostRetryable(o) == o.k \in {"send_err", "read_err"}

\* C1 as stated: get(url) called twice in a row returns the identical text
\* both times, with exactly one outbound network call across the two calls,
\* whatever the remote does.
C1_Original ==
    (call.pc = "done" /\ call.verb = "get" /\ SameAsBefore) =>
        /\ call.ret.some
        /\ call.ret = call.before.ret
        /\ call.before.attempts + call.attempts = 1

\* C1 (amended): when get(url) is called twice in a row and the first call
\* returns a text that does not contain "error", the second call returns at
\* once with the identical text and sends no HTTP request; the first call
\* sent at most 5.
C1_Idempotence ==
    (call.verb = "get" /\ SameAsBefore /\ call.before.ret.some
        /\ ~Contains(call.before.ret.v, ErrorMarker)) =>
        /\ call.pc = "done"
        /\ call.ret = call.before.ret
        /\ call.attempts = 0
        /\ call.current_try = 0
        /\ call.before.attempts <= 5

\* A second get of a URL whose first get needed two attempts.
C1_Witness ==
    /\ call.pc = "done" /\ call.verb = "get" /\ SameAsBefore
    /\ call.before.attempts = 2 /\ call.before.ret.some
    /\ call.ret = call.before.ret /\ call.attempts = 0

\* C2: a get or post whose fingerprint has an entry in the persistent cache
\* returns exactly the stored text, with no HTTP attempt and no iteration of
\* the retry loop.
C2_CacheHitShortCircuit ==
    call.had_entry =>
        /\ call.pc = "done"
        /\ call.ret = Some(call.stored)
        /\ call.attempts = 0
        /\ call.current_try = 0

\* A post answered from the persistent cache.
C2_Witness ==
    /\ call.had_entry /\ call.verb = "post" /\ call.pc = "done"
    /\ call.ret = Some(call.stored) /\ call.attempts = 0

C8_Original ==
    (call.verb = "post" /\ ~call.had_entry) =>
        /\ call.attempts <= 4
        /\ (call.pc = "loop" /\ call.attempts >= 1) => PostRetryable(call.last)
        /\ (call.pc = "done" /\ call.ret.some) =>
              /\ call.attempts >= 1
              /\ call.last = Body(call.ret.v)
        /\ (call.pc = "done" /\ ~call.ret.some) =>
              /\ call.attempts = 4
              /\ PostRetryable(call.last)

\* C8 (amended): a post that misses the persistent cache makes at most 3 HTTP
\* attempts (2 retries); the loop goes on after an attempt only when the send
\* or the body read failed; any body, one holding "Max rate limit reached"
\* included, ends the loop and is what post returns; when all 3 attempts
\* fail post returns none.
C8_PostRetryPolicy ==
    (call.verb = "post" /\ ~call.had_entry) =>
        /\ call.attempts <= 3
        /\ call.pc = "loop" =>
              /\ call.current_try = call.attempts + 1
              /\ call.attempts >= 1 => PostRetryable(call.last)
        /\ (call.attempts >= 1 /\ ~PostRetryable(call.last)) =>
              call.pc \in {"done", "panic"}
        /\ (call.pc = "done" /\ call.ret.some) =>
              /\ call.attempts >= 1
              /\ call.last = Body(call.ret.v)
        /\ (call.pc = "done" /\ ~call.ret.some) =>
              /\ call.attempts = 3
              /\ PostRetryable(call.last)
              /\ call.hash \notin DOMAIN rpc_cache

\* A post that returned a rate-limit body, received on its third attempt.
C8_Witness ==
    /\ call.verb = "post" /\ call.pc = "done"
    /\ call.ret = Some(RateLimitText) /\ call.attempts = 3

\* C9: a response that get or post returns after a miss is in the persistent
\* cache under the request's fingerprint exactly when it does not contain
\* "error"; no stored entry contains "error"; a returned response that does
\* contain it leaves no entry, so the next identical request misses and goes
\* to the network.
C9_PersistOnSuccess ==
    /\ \A h \in DOMAIN rpc_cache : ~Contains(rpc_cache[h], ErrorMarker)
    /\ (call.pc = "done" /\ ~call.had_entry /\ call.ret.some) =>
          /\ call.hash \in DOMAIN rpc_cache <=> ~Contains(call.ret.v, ErrorMarker)
          /\ call.hash \in DOMAIN rpc_cache => rpc_cache[call.hash] = call.ret.v
    /\ (SameAsBefore /\ call.before.ret.some
          /\ Contains(call.before.ret.v, ErrorMarker)) =>
          /\ ~call.had_entry
          /\ call.pc = "done" => call.attempts >= 1

\* An identical request after a returned response that held "error": it was
\* fetched again, and what it fetched this time was stored.
C9_Witness ==
    /\ SameAsBefore /\ call.before.ret = Some(ErrorText)
    /\ call.pc = "done" /\ call.attempts >= 1
    /\ call.ret.some /\ call.hash \in DOMAIN rpc_cache

----------------------------------------------------------------------------
(* Claims about the in-memory caches, checked under Spec.                 *)

CacheMaps ==
    {"balance_cache", "code_cache", "code_cache_analyzed", "slot_cache",
     "abi_cache", "storage_dump_cache", "pair_cache"}

\* C3: whatever accessor runs, a key that is in one of the seven cache maps
\* before the call is in it after the call, with the same value.
C3_CacheMonotonicity ==
    [][\A m \in CacheMaps :
          \A k \in DOMAIN cfg[m] :
              k \in DOMAIN cfg'[m] /\ cfg'[m][k] = cfg[m][k]]_vars

\* Every map holds a key, and the last call was answered from its map.
C3_Witness ==
    /\ \A m \in CacheMaps : DOMAIN cfg[m] # {}
    /\ obs.cached
    /\ ~obs.panic

C5Accessors ==
    {"get_balance", "get_contract_code", "get_contract_slot", "fetch_abi",
     "fetch_storage_dump", "get_pair"}

\* C5: for each of the six accessors and each key, the session has sent at
\* most one request to Transport or to the network; and a call that is not
\* forced, comes after a call of the same accessor and key that returned,
\* and returns, has made no request and returns what that first call did.
C5_AtMostOneFetch ==
    /\ \A k \in DOMAIN hist.fetches :
          k[1] \in C5Accessors => hist.fetches[k] <= 1
    /\ (obs.op \in C5Accessors /\ ~obs.force /\ obs.later /\ ~obs.panic)
          => /\ obs.reqs = <<>>
             /\ obs.ret = hist.first[<<obs.op, obs.key>>]

\* A second fetch_abi for an address, after one request for its ABI and one
\* for its storage dump.
C5_Witness ==
    /\ obs.op = "fetch_abi"
    /\ obs.later
    /\ ~obs.panic
    /\ obs.reqs = <<>>
    /\ <<"fetch_abi", obs.key>> \in DOMAIN hist.fetches
    /\ hist.fetches[<<"fetch_abi", obs.key>>] = 1
    /\ <<"fetch_storage_dump", obs.key>> \in DOMAIN hist.fetches

----------------------------------------------------------------------------
(* The claim about force_cache, checked under FSpec.                      *)

\* C6: a forced get_contract_code or get_contract_slot makes no request,
\* does not panic and changes neither the session nor the store; it returns
\* the cached value when the key is cached (the value the first unforced
\* call returned, when there was one), and the empty string or zero when
\* it is not.
C6_ForceCacheShortCircuit ==
    [][/\ (obs'.op = "get_contract_code" /\ obs'.force)
             => /\ obs'.reqs = <<>> /\ ~obs'.panic
                /\ cfg' = cfg /\ rpc_cache' = rpc_cache
                /\ obs'.ret = IF obs'.key[1] \in DOMAIN cfg.code_cache
                              THEN cfg.code_cache[obs'.key[1]] ELSE <<>>
                /\ <<obs'.op, obs'.key>> \in DOMAIN hist.first
                      => obs'.ret = hist.first[<<obs'.op, obs'.key>>]
       /\ (obs'.op = "get_contract_slot" /\ obs'.force)
             => /\ obs'.reqs = <<>> /\ ~obs'.panic
                /\ cfg' = cfg /\ rpc_cache' = rpc_cache
                /\ obs'.ret = IF obs'.key \in DOMAIN cfg.slot_cache
                              THEN cfg.slot_cache[obs'.key] ELSE 0
                /\ <<obs'.op, obs'.key>> \in DOMAIN hist.first
                      => obs'.ret = hist.first[<<obs'.op, obs'.key>>]]_vars

\* A forced get_contract_code for an address whose code was never fetched,
\* in a session that has fetched a slot of the address.
C6_Witness ==
    /\ obs.op = "get_contract_code"
    /\ obs.force
    /\ ~obs.cached
    /\ obs.ret = <<>>
    /\ obs.reqs = <<>>
    /\ DOMAIN cfg.code_cache = {}
    /\ \E k \in DOMAIN cfg.slot_cache : cfg.slot_cache[k] = 5

----------------------------------------------------------------------------
(* The claim about the pinned block, checked under PSpec.                 *)

\* C4: all the eth_getBalance, eth_getCode and eth_getStorageAt requests of
\* a session carry the same block parameter.
C4_Original == Cardinality(hist.blocks) <= 1

----------------------------------------------------------------------------
(* The claim about the block context, checked under BSpec.                *)

\* What the accessor of a lazy field returns for the field's string.
Same(v) == v

AsNumber(v) == U256FromStr(v).v

AsAddress(v) == AddressFromStr(v).v

\* One lazy field over one step: once resolved it keeps its value; a call
\* of its accessor that returns leaves it resolved and returns its value,
\* and makes no request when the field was resolved before.
Terminal(field, accessor, Value(_)) ==
    /\ cfg[field].some => cfg'[field] = cfg[field]
    /\ (obs'.op = accessor /\ ~obs'.panic)
          => /\ cfg'[field].some
             /\ obs'.ret = Value(cfg'[field].v)
             /\ cfg[field].some => obs'.reqs = <<>>

\* C10: the four lazy fields are unresolved in a new session; each is
\* resolved by the first call of its accessor that returns, is never
\* overwritten afterwards, and later calls of the accessor return the same
\* value without a request.
C10_LazyFieldsTerminal ==
    /\ [](obs.op = "new_raw"
             => \A f \in {"block_hash", "timestamp", "coinbase", "gaslimit"} :
                   ~cfg[f].some)
    /\ [][/\ Terminal("block_hash", "fetch_blk_hash", Same)
          /\ Terminal("timestamp", "fetch_blk_timestamp", AsNumber)
          /\ Terminal("coinbase", "fetch_blk_coinbase", AsAddress)
          /\ Terminal("gaslimit", "fetch_blk_gaslimit", AsNumber)]_vars

\* fetch_blk_timestamp answered from the field, with all four fields
\* resolved and the session moved to another block since construction.
C10_Witness ==
    /\ obs.op = "fetch_blk_timestamp"
    /\ obs.cached
    /\ ~obs.panic
    /\ obs.reqs = <<>>
    /\ \A f \in {"block_hash", "timestamp", "coinbase", "gaslimit"} : cfg[f].some
    /\ cfg.block_number # <<"0", "x">> \o LowerHex(PinnedBlock)

\* The field of the block named key is in the response: the response is
\* there, is JSON, has a result, and the result has a string under key.
HasField(resp, key) ==
    /\ resp.some
    /\ FromJson(resp.v).some
    /\ JGet(FromJson(resp.v).v, <<"result">>).some
    /\ AsStr(JIndex(JGet(FromJson(resp.v).v, <<"result">>).v, <<key>>)).some

\* A call of accessor that found field unresolved and whose
\* eth_getBlockByNumber request brought no result, or a result without
\* key, aborts the session and leaves the field unresolved.
FatalResolution(field, accessor, key) ==
    (/\ obs'.op = accessor
     /\ ~cfg[field].some
     /\ Len(obs'.reqs) = 1
     /\ ~HasField(obs'.reqs[1].resp, key))
        => /\ obs'.panic
           /\ ~cfg'[field].some

\* C11: when the eth_getBlockByNumber request of a block accessor returns
\* no result, or a result that lacks the field the accessor asks for, the
\* accessor aborts the session and the field stays unresolved.
C11_ResolutionFailureFatal ==
    [][/\ FatalResolution("block_hash", "fetch_blk_hash", "hash")
       /\ FatalResolution("timestamp", "fetch_blk_timestamp", "timestamp")
       /\ FatalResolution("coinbase", "fetch_blk_coinbase", "miner")
       /\ FatalResolution("gaslimit", "fetch_blk_gaslimit", "gasLimit")]_vars

\* fetch_blk_timestamp aborted on a block that came without a timestamp,
\* the hash having been resolved before.
C11_Witness ==
    /\ obs.op = "fetch_blk_timestamp"
    /\ obs.panic
    /\ Len(obs.reqs) = 1
    /\ obs.reqs[1].resp = Some(HashOnlyText)
    /\ cfg.block_hash.some
    /\ ~cfg.timestamp.some

----------------------------------------------------------------------------
(* The claim about construction, checked under PSpec.                     *)

\* The method of a JSON-RPC request.
MethodOf(req) == JIndex(FromJson(req.data).v, <<"method">>).s

\* The result member of a response, when it has one.
ResultIn(resp) ==
    IF resp.some /\ FromJson(resp.v).some
    THEN JGet(FromJson(resp.v).v, <<"result">>)
    ELSE None

\* What construction did: nothing asked and "0x" with the lowercase hex of
\* n pinned when n is not zero; one eth_blockNumber request when it is,
\* its result string pinned, and an abort when it has no result.
C12_Construction ==
    obs.op = "new_raw"
       => IF obs.key[1] # 0
          THEN /\ obs.reqs = <<>>
               /\ ~obs.panic
               /\ cfg.block_number
                     = (IF obs.key[1] = LetteredBlock THEN <<"0", "x", "a", "b">>
                        ELSE <<"0", "x", "5">>)
          ELSE /\ Len(obs.reqs) = 1
               /\ MethodOf(obs.reqs[1]) = <<"eth_blockNumber">>
               /\ IF ResultIn(obs.reqs[1].resp).some
                  THEN /\ ~obs.panic
                       /\ cfg.block_number = ResultIn(obs.reqs[1].resp).v.s
                  ELSE obs.panic

----------------------------------------------------------------------------
(* The claims about the state reads, checked under VSpec.                 *)

\* The call that made this step sent one request, and it came back
\* without a result.
NoResult(op) ==
    /\ obs'.op = op
    /\ ~obs'.force
    /\ Len(obs'.reqs) = 1
    /\ ~ResultIn(obs'.reqs[1].resp).some

\* C13: when the eth_getBalance request yields no result, get_balance
\* aborts the session, returns no balance and inserts nothing into
\* balance_cache.
C13_Original ==
    [][NoResult("get_balance")
          => /\ obs'.panic
             /\ cfg'.balance_cache = cfg.balance_cache]_vars

\* C14: when the request behind a non-forced get_contract_code or
\* get_contract_slot yields no result the session is aborted, and no
\* default (empty code, zero slot) is returned or cached.
C14_Original ==
    [][/\ NoResult("get_contract_code")
             => /\ obs'.panic
                /\ cfg'.code_cache = cfg.code_cache
       /\ NoResult("get_contract_slot")
             => /\ obs'.panic
                /\ cfg'.slot_cache = cfg.slot_cache]_vars

RECURSIVE Power(_, _)
Power(b, n) == IF n = 0 THEN 1 ELSE b * Power(b, n - 1)

\* The digits ds read in radix: each digit times the weight of its place.
RECURSIVE PlaceValue(_, _)
PlaceValue(ds, radix) ==
    IF ds = <<>> THEN 0
    ELSE DigitValue(Head(ds)) * Power(radix, Len(ds) - 1) + PlaceValue(Tail(ds), radix)

IsNumeral(ds, radix) ==
    /\ ds # <<>>
    /\ \A i \in DOMAIN ds : DigitValue(ds[i]) \in 0 .. radix - 1

\* The integer a string denotes: hexadecimal after "0x", decimal without;
\* None for a string that is neither.
Denoted(s) ==
    IF Len(s) > 2 /\ s[1] = "0" /\ s[2] = "x" /\ IsNumeral(SubSeq(s, 3, Len(s)), 16)
    THEN Some(PlaceValue(SubSeq(s, 3, Len(s)), 16))
    ELSE IF IsNumeral(s, 10) THEN Some(PlaceValue(s, 10))
    ELSE None

\* The params of a JSON-RPC request.
ParamsOf(req) == JIndex(FromJson(req.data).v, <<"params">>).a

\* C15: get_balance of an address that is not in balance_cache sends one
\* eth_getBalance request for the address at the pinned block; when the
\* result of the response is a string that denotes an integer, in
\* hexadecimal after "0x" or in decimal, get_balance returns that integer
\* and balance_cache gains exactly that value under the address.
C15_BalanceValue ==
    [][(obs'.op = "get_balance" /\ obs'.key[1] \notin DOMAIN cfg.balance_cache)
          => /\ Len(obs'.reqs) = 1
             /\ MethodOf(obs'.reqs[1]) = <<"eth_getBalance">>
             /\ Len(ParamsOf(obs'.reqs[1])) = 2
             /\ ParamsOf(obs'.reqs[1])[1].s = <<"0x", obs'.key[1]>>
             /\ ParamsOf(obs'.reqs[1])[2].s = cfg.block_number
             /\ \A result \in {ResultIn(obs'.reqs[1].resp)} :
                   (result.some /\ result.v.ty = "str" /\ Denoted(result.v.s).some)
                      => /\ ~obs'.panic
                         /\ obs'.ret = Denoted(result.v.s).v
                         /\ cfg'.balance_cache
                               = Put(cfg.balance_cache, obs'.key[1],
                                     Denoted(result.v.s).v)]_vars

\* get_balance answered "0x5": it returned 5 and cached 5, next to another
\* address whose balance came in decimal.
C15_Witness ==
    /\ obs.op = "get_balance"
    /\ ~obs.cached
    /\ Len(obs.reqs) = 1
    /\ obs.reqs[1].resp = Some(ResultText(Str(<<"0", "x", "5">>)))
    /\ obs.ret = 5
    /\ obs.key[1] \in DOMAIN cfg.balance_cache
    /\ cfg.balance_cache[obs.key[1]] = 5
    /\ \E a \in DOMAIN cfg.balance_cache : cfg.balance_cache[a] = 12

----------------------------------------------------------------------------
(* The claim about storage dumps, checked under DSpec.                    *)

\* The storage member of the response to the last request of a call.
StorageIn(reqs) ==
    JIndex(ResultIn(reqs[Len(reqs)].resp).v, <<"storage">>).m

\* The number a "0x" string of a dump denotes.
HexNumber(s) == PlaceValue(SubSeq(s, 3, Len(s)), 16)

\* The decoded key/value pairs of a storage member.
DecodedPairs(storage) ==
    {<<HexNumber(JIndex(storage[n], <<"key">>).s),
       HexNumber(JIndex(storage[n], <<"value">>).s)>> : n \in DOMAIN storage}

\* C16: a fetch_storage_dump that asks the node and returns gives none,
\* and memoizes none for the address, when the debug_storageRangeAt
\* response has no entries; when it has entries the result is a present
\* map that holds exactly the decoded key/value pairs of the response.
C16_EmptyStorageNormalization ==
    [][(/\ obs'.op = "fetch_storage_dump"
        /\ obs'.key[1] \notin DOMAIN cfg.storage_dump_cache
        /\ ~obs'.panic
        /\ ResultIn(obs'.reqs[Len(obs'.reqs)].resp).some)
          => /\ MethodOf(obs'.reqs[Len(obs'.reqs)]) = <<"debug_storageRangeAt">>
             /\ cfg'.storage_dump_cache[obs'.key[1]] = obs'.ret
             /\ IF DOMAIN StorageIn(obs'.reqs) = {}
                THEN obs'.ret = None
                ELSE /\ obs'.ret.some
                     /\ {<<k, obs'.ret.v[k]>> : k \in DOMAIN obs'.ret.v}
                           = DecodedPairs(StorageIn(obs'.reqs))]_vars

\* A dump of two entries came back as the map of its two pairs, after a
\* dump without entries had been memoized as none for the other address.
C16_Witness ==
    /\ obs.op = "fetch_storage_dump"
    /\ ~obs.cached
    /\ ~obs.panic
    /\ obs.ret.some
    /\ DOMAIN obs.ret.v = {1, 42}
    /\ obs.ret.v[1] = 7
    /\ obs.ret.v[42] = 255
    /\ \E a \in DOMAIN cfg.storage_dump_cache : cfg.storage_dump_cache[a] = None

----------------------------------------------------------------------------
(* The claim about reserves, checked under RSpec.                         *)

\* The text of the result of a response: its JSON form, empty when the
\* response has no result.
ResultTextOf(resp) ==
    IF ResultIn(resp).some THEN to_string(ResultIn(resp).v) ELSE <<>>

\* pair is the characters of text at offsets [3, 67) and [67, 131).
AtFixedOffsets(text, pair) ==
    \E i \in 1 .. Len(text) + 1 :
        /\ StrLen(SubSeq(text, 1, i - 1)) = 3
        /\ \E j \in i .. Len(text) + 1 :
              /\ StrLen(SubSeq(text, i, j - 1)) = 64
              /\ pair[1] = SubSeq(text, i, j - 1)
              /\ \E k \in j .. Len(text) + 1 :
                    /\ StrLen(SubSeq(text, j, k - 1)) = 64
                    /\ pair[2] = SubSeq(text, j, k - 1)

\* C17: fetch_reserve returns a pair exactly when the text of the eth_call
\* result is 196 characters long, and the pair is then the characters of
\* the text at offsets [3, 67) and [67, 131); with any other length, no
\* result included, it aborts the session and returns nothing.
C17_ReserveDecode ==
    [][obs'.op = "fetch_reserve"
          => /\ Len(obs'.reqs) = 1
             /\ MethodOf(obs'.reqs[1]) = <<"eth_call">>
             /\ \E text \in {ResultTextOf(obs'.reqs[1].resp)} :
                   /\ ~obs'.panic <=> StrLen(text) = 196
                   /\ ~obs'.panic => AtFixedOffsets(text, obs'.ret)
             /\ obs'.panic => obs'.ret = <<>>]_vars

\* fetch_reserve returned the two words of a result given in pieces of
\* eight characters.
C17_Witness ==
    /\ obs.op = "fetch_reserve"
    /\ ~obs.panic
    /\ obs.reqs[1].resp = Some(FineReserveText)
    /\ obs.ret[1] = <<Word("a"), Word("b"), Word("a"), Word("b"),
                      Word("a"), Word("b"), Word("a"), Word("b")>>
    /\ obs.ret[2] = <<Word("c"), Word("c"), Word("c"), Word("c"),
                      Word("d"), Word("d"), Word("d"), Word("d")>>

----------------------------------------------------------------------------
(* The claim about the explorer's negative answers, checked under ASpec.  *)

\* The explorer's answer gives no ABI: there is no answer, the body is no
\* JSON, it has no result or one that is no string, or the result is the
\* literal for an unverified contract.
Negative(resp) ==
    \/ ~ResultIn(resp).some
    \/ ResultIn(resp).v.ty # "str"
    \/ ResultIn(resp).v.s = <<"Contract source code not verified">>

\* C18: a fetch_abi whose answer gives no ABI returns none and stores none
\* for the address without aborting the session, and a later fetch_abi of
\* an address that holds none returns none without a request.
C18_AbiNegatives ==
    [][obs'.op = "fetch_abi"
          => /\ (obs'.key[1] \notin DOMAIN cfg.abi_cache
                    /\ Negative(obs'.reqs[Len(obs'.reqs)].resp))
                   => /\ ~obs'.panic
                      /\ obs'.ret = None
                      /\ cfg'.abi_cache = Put(cfg.abi_cache, obs'.key[1], None)
             /\ (obs'.key[1] \in DOMAIN cfg.abi_cache
                    /\ cfg.abi_cache[obs'.key[1]] = None)
                   => /\ ~obs'.panic
                      /\ obs'.ret = None
                      /\ obs'.reqs = <<>>
                      /\ cfg'.abi_cache = cfg.abi_cache]_vars

\* A fetch_abi answered none from abi_cache without a request, in a
\* session that has been given the unverified literal for one address and
\* an ABI for the other.
C18_Witness ==
    /\ obs.op = "fetch_abi"
    /\ obs.cached
    /\ ~obs.panic
    /\ obs.reqs = <<>>
    /\ obs.ret = None
    /\ cfg.abi_cache[obs.key[1]] = None
    /\ \E a \in DOMAIN cfg.abi_cache : cfg.abi_cache[a] = Some(<<"[abi]">>)
    /\ \E h \in DOMAIN rpc_cache : rpc_cache[h] = ResultText(Str(NotVerified))

----------------------------------------------------------------------------
(* The claims about the pair service, checked under GSpec.                *)

\* A candidate with a member missing or of the wrong type.
Malformed(item) ==
    \/ \E f \in {"pair", "token0", "token1", "interface"} :
          ~AsStr(JIndex(item, <<f>>)).some
    \/ \E f \in {"token0_decimals", "token1_decimals"} :
          ~AsI64(JIndex(item, <<f>>)).some

\* The request to the pair service failed, or its response is no JSON, or
\* it holds a malformed candidate.
PairFailure(resp) ==
    \/ ~resp.some
    \/ ~FromJson(resp.v).some
    \/ /\ AsArray(FromJson(resp.v).v).some
       /\ \E i \in DOMAIN AsArray(FromJson(resp.v).v).v :
             Malformed(AsArray(FromJson(resp.v).v).v[i])

\* C19: when the request get_pair makes to the pair service fails, or the
\* response is no JSON or holds a malformed candidate, get_pair returns
\* an empty or shortened list and the session is not aborted.
C19_Original ==
    [][(/\ obs'.op = "get_pair"
        /\ obs'.reqs # <<>>
        /\ PairFailure(obs'.reqs[1].resp))
          => ~obs'.panic]_vars

\* C20: every request a session operation sends was preceded by a lookup
\* of its fingerprint in the persistent cache, the query of get_pair to
\* the pair service included.
C20_Original == \A i \in DOMAIN obs.reqs : obs.reqs[i].lookup

----------------------------------------------------------------------------
(* The claim about two sessions over one store, checked under CSpec.      *)

\* C21: whatever the interleaving of two sessions over one persistent
\* store, a save under a key that the store already holds writes the text
\* it holds: the content of the store for a key does not depend on which
\* session wrote last.
C21_Original ==
    [][\A h \in DOMAIN rpc_cache : rpc_cache'[h] = rpc_cache[h]]_vars

----------------------------------------------------------------------------
(* The claim about the anchor of a storage dump, checked under BSpec.     *)

\* The methods of the requests of a call, in the order they were sent.
Methods(reqs) == [i \in DOMAIN reqs |-> MethodOf(reqs[i])]

\* C22: a fetch_storage_dump of an address that is not in
\* storage_dump_cache resolves the block hash first, with an
\* eth_getBlockByNumber request for the session's block when and only when
\* block_hash is unresolved; the debug_storageRangeAt request comes after
\* it and carries the resolved block hash; and when the call returns,
\* block_hash is resolved.
C22_DumpAnchoredAtBlockHash ==
    [][(obs'.op = "fetch_storage_dump"
           /\ obs'.key[1] \notin DOMAIN cfg.storage_dump_cache)
          => \E methods \in {Methods(obs'.reqs)} :
                /\ IF cfg.block_hash.some
                   THEN /\ methods = <<<<"debug_storageRangeAt">>>>
                        /\ cfg'.block_hash = cfg.block_hash
                   ELSE /\ methods \in {<<<<"eth_getBlockByNumber">>>>,
                                        <<<<"eth_getBlockByNumber">>,
                                          <<"debug_storageRangeAt">>>>}
                        /\ ParamsOf(obs'.reqs[1])[1].s = cfg.block_number
                /\ methods[Len(methods)] = <<"debug_storageRangeAt">>
                      => /\ cfg'.block_hash.some
                         /\ ParamsOf(obs'.reqs[Len(methods)])[1].s
                               = cfg'.block_hash.v
                /\ ~obs'.panic
                      => /\ cfg'.block_hash.some
                         /\ methods[Len(methods)] = <<"debug_storageRangeAt">>]_vars

\* A dump that resolved the hash of the block on its way and returned a
\* map, and whose second request carries that hash.
C22_Witness ==
    /\ obs.op = "fetch_storage_dump"
    /\ ~obs.cached
    /\ ~obs.panic
    /\ obs.ret.some
    /\ Len(obs.reqs) = 2
    /\ MethodOf(obs.reqs[1]) = <<"eth_getBlockByNumber">>
    /\ MethodOf(obs.reqs[2]) = <<"debug_storageRangeAt">>
    /\ cfg.block_hash = Some(<<"0xh5">>)
    /\ ParamsOf(obs.reqs[2])[1].s = <<"0xh5">>

\* The candidates of the response to the first request of a call: the
\* elements of the array, none when the response is no array.
Candidates(reqs) ==
    IF AsArray(FromJson(reqs[1].resp.v).v).some
    THEN AsArray(FromJson(reqs[1].resp.v).v).v
    ELSE <<>>

\* The pool of a candidate, as code_cache names it.
PoolOf(item) == JIndex(item, <<"pair">>).s[2]

\* The call asked the pair service for a single pair, which it does when
\* is_pegged holds.
Pegged(req) == req.url[1] = "https://pairs.infra.fuzz.land/single_pair/"

\* C23: a get_pair of a token that is not in pair_cache, when it returns,
\* gives one PairData for each candidate whose pool has code that is not
\* empty and none for the others, in the order of the response; each has
\* the source "pegged" when is_pegged holds and "v2" otherwise.
C23_PairFiltering ==
    [][(obs'.op = "get_pair" /\ ~obs'.panic
           /\ obs'.key[1] \notin DOMAIN cfg.pair_cache)
          => \E kept \in {SelectSeq(Candidates(obs'.reqs),
                                    LAMBDA item :
                                        cfg'.code_cache[PoolOf(item)] # <<>>)} :
                /\ Len(obs'.ret) = Len(kept)
                /\ \A j \in DOMAIN kept :
                      /\ obs'.ret[j].pair = JIndex(kept[j], <<"pair">>).s
                      /\ obs'.ret[j].src
                            = (IF Pegged(obs'.reqs[1]) THEN <<"pegged">>
                               ELSE <<"v2">>)]_vars

\* A get_pair given two candidates returned the second alone, the pool of
\* the first having no code.
C23_Witness ==
    /\ obs.op = "get_pair"
    /\ ~obs.cached
    /\ ~obs.panic
    /\ Len(Candidates(obs.reqs)) = 2
    /\ Len(obs.ret) = 1
    /\ obs.ret[1].pair = <<"0x", "b2">>
    /\ obs.ret[1].src = <<"pegged">>
    /\ Pegged(obs.reqs[1])
    /\ cfg.code_cache["b3"] = <<>>
    /\ cfg.code_cache["b2"] # <<>>

\* C24: pair_cache gains the entry of a token at the end of a get_pair
\* that returns, and the entry is the whole filtered list that get_pair
\* returns; a get_pair that aborts leaves pair_cache without an entry for
\* the token, and nothing else writes pair_cache.
C24_PairCacheAtomic ==
    [][/\ (obs'.op = "get_pair" /\ obs'.key[1] \notin DOMAIN cfg.pair_cache)
             => IF obs'.panic
                THEN cfg'.pair_cache = cfg.pair_cache
                ELSE /\ cfg'.pair_cache = Put(cfg.pair_cache, obs'.key[1], obs'.ret)
                     /\ Len(obs'.ret)
                           = Cardinality({i \in DOMAIN Candidates(obs'.reqs) :
                                 cfg'.code_cache[PoolOf(Candidates(obs'.reqs)[i])]
                                    # <<>>})
       /\ (obs'.op # "get_pair" \/ obs'.key[1] \in DOMAIN cfg.pair_cache)
             => cfg'.pair_cache = cfg.pair_cache]_vars

\* A get_pair that aborted on its second candidate, after the code of the
\* first had been fetched: the token has no entry in pair_cache.
C24_Witness ==
    /\ obs.op = "get_pair"
    /\ obs.panic
    /\ Len(obs.reqs) = 3
    /\ Len(Candidates(obs.reqs)) = 2
    /\ cfg.code_cache["b2"] # <<>>
    /\ obs.key[1] \notin DOMAIN cfg.pair_cache

----------------------------------------------------------------------------
(* The claim about termination, checked under LSpec.                      *)

\* C25: a get or post that has entered its retry loop leaves it, whatever
\* the attempts bring, failures and rate limits for ever included: the
\* loop is over at the first attempt that need not be retried or when the
\* attempts are used up, 5 for get and 3 for post.
C25_RetryLoopsTerminate ==
    /\ (call.pc = "loop") ~> (call.pc \in {"done", "panic"})
    /\ [](call.pc = "loop"
             => /\ call.attempts <= (IF call.verb = "get" THEN 5 ELSE 3)
                /\ call.current_try = call.attempts + 1)

\* A post that returned none after three attempts, none of which got a
\* body.
C25_Witness ==
    /\ call.verb = "post"
    /\ call.pc = "done"
    /\ ~call.ret.some
    /\ call.attempts = 3
    /\ call.last = ReadErr
    /\ call.current_try = 4

----------------------------------------------------------------------------
(* The claim about analysed code, checked under FSpec.                    *)

\* C26: every entry of code_cache_analyzed is the analysis of the code
\* that was fetched for its address, the code get_contract_code answers
\* for it, and never that of the empty code a forced call stands in with.
C26_Original ==
    \A a \in DOMAIN cfg.code_cache_analyzed :
        /\ a \in DOMAIN cfg.code_cache
        /\ cfg.code_cache_analyzed[a] = <<"analysed", HexDecode(cfg.code_cache[a]).v>>


----------------------------------------------------------------------------
(* Claims about runs over one store, checked under NSpec.                 *)

\* The fingerprint of the eth_blockNumber request of the endpoint and the
\* chain id.
LatestHash == Hash(PostKey(EndpointUrl, RequestData("eth_blockNumber", <<"[", "]">>, ChainId)))

\* C27: when the store holds a response to the eth_blockNumber request of
\* the endpoint and the chain id, a new_raw with block number 0 makes one
\* request, answers it from the store without any attempt on the network,
\* leaves the store as it was, and pins the block of the stored response,
\* whatever the remote's latest block is.
C27_LatestServedFromStore ==
    [][(LatestHash \in DOMAIN rpc_cache
        /\ \E net \in {LatestNet(latest), Down} : NewRaw(0, net))
       => /\ Len(obs'.reqs) = 1
          /\ obs'.reqs[1].hit
          /\ obs'.reqs[1].attempts = 0
          /\ rpc_cache' = rpc_cache
          /\ ~obs'.panic
          /\ cfg'.block_number = ResultIn(Some(rpc_cache[LatestHash])).v.s]_vars

\* A run built for the latest block is served block 9 from the store while
\* the remote's latest block is 11.
C27_Witness ==
    /\ obs.op = "new_raw"
    /\ obs.key = <<0>>
    /\ ~obs.panic
    /\ Len(obs.reqs) = 1
    /\ obs.reqs[1].hit
    /\ obs.reqs[1].attempts = 0
    /\ cfg.block_number = <<"0", "x", "9">>
    /\ latest = MaxLatest
    /\ Len(hist.fetches) = 0


----------------------------------------------------------------------------
(* The claim about a store that refuses a save, checked under TSpec.      *)

\* C28: an attempt of get or post that yields a text ends the call with
\* that text returned, whether or not the store accepts the save; no call
\* ends in an abort.
C28_Original ==
    [][\A o \in TOutcomes, save_ok \in BOOLEAN :
          (Attempt(o, save_ok) /\ Operation(call.verb, call.current_try, o).r = "Ok")
             => /\ call'.pc = "done"
                /\ call'.ret = Some(o.text)]_vars


----------------------------------------------------------------------------
(* The claim about the keys, checked under KSpec.                         *)

========================================================================
